---- MODULE Spec2Model ----
(***************************************************************************)
(* Model of the address-integrity layer of phantom-agent:                  *)
(*   packages/backend/convex/dataIntegrity.ts  (lookupToken, verifyAddress,*)
(*       getCacheEntry, writeCacheEntry, the two registry clients)         *)
(*   packages/backend/convex/agent.ts          (the agent's tools that     *)
(*       call the resolver and the wallet service)                         *)
(*                                                                         *)
(* Strings are sequences of one-character strings, so that toUpperCase,    *)
(* toLowerCase, the "$"-strip, .length and the cache-key template are      *)
(* computed and not assumed.                                               *)
(***************************************************************************)
EXTENDS Integers, Sequences, FiniteSets, TLC

VARIABLES
    now,                \* Date.now(), in milliseconds
    tokenAddressCache,  \* the tokenAddressCache table: a sequence of rows
    active,             \* the callers that may run tool calls in this specification
    pc,                 \* per caller: where its data_integrity call stands
    args,               \* per caller: the arguments of its current / last call
    cached,             \* per caller: local `cached` of lookupToken
    readAt,             \* per caller: Date.now() when getCacheEntry ran
    cacheAtStart,       \* per caller: the table when the call began
    registry,           \* per caller: the list response body this call fetched
    matches,            \* per caller: local `matches` (after slice(0,5) on EVM)
    resolvedMatches,    \* per caller: local `resolvedMatches` of lookupEvmToken
    detailIdx,          \* per caller: the candidate the loop of lookupEvmToken is at
    requests,           \* per caller: the registry endpoints requested by this call
    details,            \* per caller: for each detail request of this call, whether it
                        \* delivered a coin object (2xx, JSON, not null)
    result,             \* per caller: what the call returned (or that it threw)
    resolved,           \* per cache key: the last Found-Token a registry resolution returned
    thread              \* the agent thread's tool history (Null: no thread is followed)

\* the rest of the system: the Convex tables and functions beside the resolver
\* (sessions, chat, approvals, the webhook) and the MCP host
VARIABLES
    webhookSecret,      \* process.env.PHANTOM_WEBHOOK_SECRET of the deployment
    phantomSessions,    \* the phantomSessions table: a sequence of rows
    pendingApprovals,   \* the pendingApprovals table: row i has the _id i
    agentThreads,       \* the threads of the agent component: thread i has the id i
    savedMessages,      \* the messages saved to the threads
    scheduled,          \* ctx.scheduler.runAfter(0, ...): the functions scheduled
    toolRuns,           \* MCP host: the wallet tool handlers that ran
    lastCall            \* the last public function call or HTTP request, and its answer

\* the extension's background service worker
VARIABLES
    storage,            \* chrome.storage.local: the value under the session key, or Null
    broadcasts,         \* the SESSION_CHANGED messages sent, in order
    flows,              \* per request: the message, where its handler stands, its locals
    answers,            \* per request: the responses passed to sendResponse
    expectNull,         \* a DISCONNECT was answered and no CONNECT has saved since its
                        \* storage request
    authTabId,          \* part_000: let authTabId
    authPromiseResolve, \* part_000: let authPromiseResolve (the request whose promise)
    authPromiseReject,  \* part_000: let authPromiseReject
    callbacks           \* part_000: the handleAuthCallback invocations under way

workerVars == <<storage, broadcasts, flows, answers, expectNull>>

authVars == <<authTabId, authPromiseResolve, authPromiseReject, callbacks>>

backendVars == <<webhookSecret, phantomSessions, pendingApprovals, agentThreads,
                 savedMessages, scheduled>>

appVars == <<backendVars, toolRuns, lastCall, workerVars, authVars>>

resolverVars == <<now, tokenAddressCache, active, pc, args, cached, readAt, cacheAtStart,
                  registry, matches, resolvedMatches, detailIdx, requests, details, result,
                  resolved, thread>>

vars == <<resolverVars, appVars>>

callVars == <<pc, args, cached, readAt, cacheAtStart, registry, matches,
              resolvedMatches, detailIdx, requests, details, result>>

-----------------------------------------------------------------------------
(* Bounds of the model *)

\* the clock takes the values ClockAt(0), ..., ClockAt(MaxClock)
MaxClock == 3
\* how many tool calls the wallet service log keeps
MaxMcpCalls == 1

Procs == {"c1", "c2"}

-----------------------------------------------------------------------------
(* Strings *)

LowerChars == <<"a","b","c","d","e","f","g","h","i","j","k","l","m",
                "n","o","p","q","r","s","t","u","v","w","x","y","z">>
UpperChars == <<"A","B","C","D","E","F","G","H","I","J","K","L","M",
                "N","O","P","Q","R","S","T","U","V","W","X","Y","Z">>

UpperOf == [c \in {LowerChars[i] : i \in 1..26} |->
               UpperChars[CHOOSE i \in 1..26 : LowerChars[i] = c]]
LowerOf == [c \in {UpperChars[i] : i \in 1..26} |->
               LowerChars[CHOOSE i \in 1..26 : UpperChars[i] = c]]

\* a letter goes to its other case, every other character stays
ToUpperChar(c) == IF c \in DOMAIN UpperOf THEN UpperOf[c] ELSE c
ToLowerChar(c) == IF c \in DOMAIN LowerOf THEN LowerOf[c] ELSE c

\* String.prototype.toUpperCase / toLowerCase
ToUpperCase(s) == [i \in 1..Len(s) |-> ToUpperChar(s[i])]
ToLowerCase(s) == [i \in 1..Len(s) |-> ToLowerChar(s[i])]

\* symbol.replace(/^\$/, ""): removes one leading "$", if there is one
StripDollar(s) == IF Len(s) > 0 /\ s[1] = "$" THEN Tail(s) ELSE s

Rep(c, n) == [i \in 1..n |-> c]

\* a value that is no string: a missing JSON field, an omitted tool argument
Undefined == <<"undefined">>
\* null: getCacheEntry's miss, a call that has not returned
Null == [kind |-> "null"]

-----------------------------------------------------------------------------
(* Program constants *)

CACHE_TTL_MS == 24 * 60 * 60 * 1000

SOLANA   == <<"s","o","l","a","n","a">>
ETHEREUM == <<"e","t","h","e","r","e","u","m">>
BITCOIN  == <<"b","i","t","c","o","i","n">>
SUI      == <<"s","u","i">>

\* the keys of NATIVE_TOKENS
SOL == <<"S","O","L">>
ETH == <<"E","T","H">>
BTC == <<"B","T","C">>

\* mutant of NATIVE_TOKENS: the SOL row is missing
NativeTokensWithoutSol(sym) ==
    CASE sym = ETH -> ETHEREUM
      [] sym = BTC -> BITCOIN
      [] sym = ToUpperCase(SUI) -> SUI
      [] OTHER -> Undefined

\* NATIVE_TOKENS[sym]; Undefined for a symbol that is no key
NATIVE_TOKENS(sym) ==
    CASE sym = SOL -> SOLANA
      [] sym = ETH -> ETHEREUM
      [] sym = BTC -> BITCOIN
      [] sym = ToUpperCase(SUI) -> SUI
      [] OTHER -> Undefined

\* Number.prototype.toString for a non-negative integer, as in `${response.status}`
Digits == <<"0","1","2","3","4","5","6","7","8","9">>
RECURSIVE NumberToString(_)
NumberToString(n) == IF n < 10 THEN <<Digits[n + 1]>>
                     ELSE NumberToString(n \div 10) \o <<Digits[(n % 10) + 1]>>

-----------------------------------------------------------------------------
(* Result shapes: TokenLookupResult, MultipleMatchesResult, VerifyResult *)

\* a template string with its one interpolated value
Text(template, arg) == [template |-> template, arg |-> arg]
NoArg == <<>>

FoundNative(name, symbol, chain) ==
    [kind |-> "FoundNative", name |-> name, symbol |-> symbol, chain |-> chain]
FoundToken(address, name, symbol, chain) ==
    [kind |-> "FoundToken", address |-> address, name |-> name, symbol |-> symbol,
     chain |-> chain]
NotFound(reason) == [kind |-> "NotFound", reason |-> reason]
Ambiguous(ms) == [kind |-> "Ambiguous", matches |-> ms]
Verified(name, symbol, chain) ==
    [kind |-> "Verified", name |-> name, symbol |-> symbol, chain |-> chain]
Unverified(warning) == [kind |-> "Unverified", warning |-> warning]
\* the handler of data_integrity when neither lookup nor verify is given
ErrorResult == [kind |-> "Error"]
\* the call did not return: an exception left lookupToken / verifyAddress
Threw(error) == [kind |-> "Threw", error |-> error]

-----------------------------------------------------------------------------
(* The cache table *)

Row(cacheKey, address, name, chain, isNative, cachedAt) ==
    [cacheKey |-> cacheKey, address |-> address, name |-> name, chain |-> chain,
     isNative |-> isNative, cachedAt |-> cachedAt]

\* .withIndex("by_cacheKey", q => q.eq("cacheKey", cacheKey)): the positions of the rows
RowsWithKey(table, cacheKey) == {i \in 1..Len(table) : table[i].cacheKey = cacheKey}

Entry(row) == [kind |-> "entry", entry |-> row]

\* mutant of Unique: the index is not consulted, the first row of the table is taken
UniqueAnyKey(table, cacheKey) ==
    IF table = <<>> THEN Null ELSE Entry(table[1])

\* .unique(): null for no row, the row for one, an exception for several
Unique(table, cacheKey) ==
    LET is == RowsWithKey(table, cacheKey) IN
    IF is = {} THEN Null
    ELSE IF Cardinality(is) = 1 THEN Entry(table[CHOOSE i \in is : TRUE])
    ELSE Threw(<<"E","r","r","o","r">>)

\* mutant of IsStale: the entry lives for two days
IsStaleAfterTwoDays(row, t) == t - row.cachedAt > CACHE_TTL_MS * 2

\* `Date.now() - entry.cachedAt > CACHE_TTL_MS`
IsStale(row, t) == t - row.cachedAt > CACHE_TTL_MS

\* mutant of GetCacheEntry: the row is returned whatever its age
GetCacheEntryNoTtl(table, cacheKey, t) == Unique(table, cacheKey)

\* getCacheEntry's handler, run at time t
GetCacheEntry(table, cacheKey, t) ==
    LET entry == Unique(table, cacheKey) IN
    IF entry.kind # "entry" THEN entry
    ELSE IF IsStale(entry.entry, t) THEN Null
    ELSE entry

\* ctx.db.delete(existing._id)
DeleteAt(table, i) == [j \in 1..(Len(table) - 1) |-> IF j < i THEN table[j] ELSE table[j + 1]]

\* the argument validator of writeCacheEntry: v.string() for cacheKey, address, name, chain
ValidWriteArgs(cacheKey, address, name, chain) ==
    /\ cacheKey # Undefined
    /\ address # Undefined
    /\ name # Undefined
    /\ chain # Undefined

\* mutant of WithoutExisting: the existing row is left in place
WithoutExistingKeepsRow(table, cacheKey) == table

\* mutant of WithoutExisting: the first row of the table is deleted, whatever its key
WithoutExistingDropsFirst(table, cacheKey) ==
    IF table = <<>> THEN table ELSE Tail(table)

\* the table after `existing`, if any, is deleted
WithoutExisting(table, cacheKey) ==
    LET is == RowsWithKey(table, cacheKey) IN
    IF is = {} THEN table ELSE DeleteAt(table, CHOOSE i \in is : TRUE)

\* writeCacheEntry's handler, run at time t: [threw, table]
WriteCacheEntry(table, cacheKey, address, name, chain, isNative, t) ==
    IF ~ValidWriteArgs(cacheKey, address, name, chain)
    THEN [threw |-> TRUE, table |-> table]
    ELSE IF Unique(table, cacheKey).kind = "Threw"
    THEN [threw |-> TRUE, table |-> table]
    ELSE [threw |-> FALSE,
          table |-> Append(WithoutExisting(table, cacheKey),
                           Row(cacheKey, address, name, chain, isNative, t))]

-----------------------------------------------------------------------------
(* lookupToken: the part before the first registry request *)

\* mutant of NormaliseSymbol: the leading "$" is kept
NormaliseSymbolNoStrip(symbol) == ToUpperCase(symbol)

\* mutant of NormaliseSymbol: the symbol is not upper-cased
NormaliseSymbolNoUpper(symbol) == StripDollar(symbol)

\* symbol.replace(/^\$/, "").toUpperCase()
NormaliseSymbol(symbol) == ToUpperCase(StripDollar(symbol))

\* chain.toLowerCase()
NormaliseChain(chain) == ToLowerCase(chain)

\* `${normalisedChain}:${normalisedSymbol}`
CacheKey(normalisedChain, normalisedSymbol) == normalisedChain \o <<":">> \o normalisedSymbol

\* mutant of IsNativeOn: the chain of the native symbol is not compared
IsNativeOnAnyChain(normalisedSymbol, normalisedChain) ==
    NATIVE_TOKENS(normalisedSymbol) # Undefined

\* nativeChain !== undefined && nativeChain === normalisedChain
IsNativeOn(normalisedSymbol, normalisedChain) ==
    /\ NATIVE_TOKENS(normalisedSymbol) # Undefined
    /\ NATIVE_TOKENS(normalisedSymbol) = normalisedChain

\* the result built from a cache hit
FromCache(entry, normalisedSymbol) ==
    IF entry.isNative
    THEN FoundNative(entry.name, normalisedSymbol, entry.chain)
    ELSE FoundToken(entry.address, entry.name, normalisedSymbol, entry.chain)

UnsupportedChainText(chain) ==
    Text("Token lookup is not supported for chain ${chain}. Only solana and ethereum are supported via registry. For Bitcoin and Sui, use get_wallet_addresses to retrieve your wallet address and request transfers by address.",
         chain)

-----------------------------------------------------------------------------
(* HTTP: what a fetch() of a registry endpoint can give *)

\* fetch() rejected: connection failure, or AbortSignal.timeout(10_000) fired
TypeError == <<"T","y","p","e","E","r","r","o","r">>
TimeoutError == <<"T","i","m","e","o","u","t","E","r","r","o","r">>
SyntaxError  == <<"S","y","n","t","a","x","E","r","r","o","r">>
Reject(error) == [kind |-> "reject", error |-> error, status |-> 0,
                  json |-> FALSE, isArray |-> FALSE, items |-> <<>>]
\* a response whose body is not JSON: response.json() rejects
NotJson(status) == [kind |-> "response", error |-> SyntaxError, status |-> status,
                    json |-> FALSE, isArray |-> FALSE, items |-> <<>>]
\* a response with a JSON array body
JsonArray(status, items) == [kind |-> "response", error |-> NoArg, status |-> status,
                             json |-> TRUE, isArray |-> TRUE, items |-> items]
\* a response with a JSON body that is no array (an object, null)
JsonOther(status) == [kind |-> "response", error |-> NoArg, status |-> status,
                      json |-> TRUE, isArray |-> FALSE, items |-> <<>>]

\* response.ok
Ok(response) == response.status >= 200 /\ response.status <= 299

-----------------------------------------------------------------------------
(* Registry fixtures *)

BONK == <<"B","O","N","K">>
BonkName == <<"B","o","n","k">>
BonkMintA == <<"D","e","z">> \o Rep("1", 29)
BonkMintB == <<"B","o","n","k">> \o Rep("2", 40)
WsolMint == <<"S","o">> \o Rep("1", 41)

JupiterToken(address, name, symbol) == [address |-> address, name |-> name, symbol |-> symbol]

TokBonkA == JupiterToken(BonkMintA, BonkName, BONK)
TokBonkB == JupiterToken(BonkMintB, <<"B","o","n","k","2">>, <<"B","o","n","k">>)
TokWsol  == JupiterToken(WsolMint, <<"W","S","O","L">>, SOL)
\* the same mint listed a second time, under another name
TokBonkAgain == JupiterToken(BonkMintA, <<"B","O","N","K">>, <<"b","o","n","k">>)
TokNoSymbol  == JupiterToken(BonkMintA, BonkName, Undefined)
TokNoAddress == JupiterToken(Undefined, BonkName, BONK)

\* what GET https://token.jup.ag/strict can answer
JupiterResponses ==
    { Reject(TypeError), Reject(TimeoutError), NotJson(200), JsonOther(200),
      JsonArray(429, <<>>),
      JsonArray(200, <<TokWsol>>),
      JsonArray(200, <<TokWsol, TokBonkA>>),
      JsonArray(200, <<TokBonkB>>),
      JsonArray(200, <<TokBonkA, TokBonkB>>),
      JsonArray(200, <<TokBonkA, TokNoSymbol>>),
      JsonArray(200, <<TokNoAddress>>),
      JsonArray(200, <<TokNoAddress, TokBonkA>>),
      JsonArray(200, <<TokBonkA, TokBonkAgain>>) }

USDC == <<"U","S","D","C">>
UsdcAddrA == <<"0","x","A","0","b","8">> \o Rep("6", 36)
UsdcAddrB == <<"0","x","f","f">> \o Rep("9", 38)
UsdcAddrC == <<"0","x","c","c">> \o Rep("7", 38)

\* a CoinGecko coin: its /coins/list entry (id, symbol, name) and, from /coins/{id},
\* platforms.ethereum (Undefined when the coin has no Ethereum contract)
Coin(id, symbol, name, ethereum) ==
    [id |-> id, symbol |-> symbol, name |-> name, ethereum |-> ethereum]

CoinUsdc    == Coin("usd-coin", <<"u","s","d","c">>, USDC, UsdcAddrA)
CoinBridged == Coin("bridged-usdc", <<"u","s","d","c">>, <<"U","S","D","C","e">>, UsdcAddrB)
CoinThird   == Coin("usdc-third", <<"U","S","D","C">>, <<"U","S","D","C","3">>, UsdcAddrC)
CoinOther(n) == Coin(<<"usdc-1","usdc-2","usdc-3">>[n], <<"u","s","d","c">>,
                     <<"U","S","D","C","x">>, Undefined)
CoinSol     == Coin("solana", <<"s","o","l">>, <<"S","o","l","a","n","a">>, Undefined)

\* what GET /api/v3/coins/list can answer
CoinGeckoResponses ==
    { Reject(TimeoutError), NotJson(200), JsonOther(200),
      JsonArray(500, <<>>),
      JsonArray(200, <<CoinSol>>),
      JsonArray(200, <<CoinSol, CoinUsdc>>),
      JsonArray(200, <<CoinUsdc, CoinBridged>>),
      JsonArray(200, <<CoinUsdc, CoinOther(1), CoinBridged, CoinOther(2), CoinOther(3),
                       CoinThird>>) }

\* the body of /coins/{id}: null, or an object with name, symbol, platforms.ethereum
Detail(isNull, name, symbol, ethereum) ==
    [isNull |-> isNull, name |-> name, symbol |-> symbol, ethereum |-> ethereum]

\* the coin with this id in the list the call fetched
CoinById(coins, id) == coins[CHOOSE i \in 1..Len(coins) : coins[i].id = id]

\* what GET /api/v3/coins/{id} can answer, for the registry the list came from
DetailResponses(coins, id) ==
    LET c == CoinById(coins, id) IN
    { Reject(TimeoutError), NotJson(200), JsonArray(429, <<>>),
      JsonArray(200, <<Detail(TRUE, Undefined, Undefined, Undefined)>>),
      JsonArray(200, <<Detail(FALSE, c.name, c.symbol, c.ethereum)>>),
      JsonArray(200, <<Detail(FALSE, Undefined, c.symbol, c.ethereum)>>) }

-----------------------------------------------------------------------------
(* lookupSolanaToken *)

\* an outcome of a step: return `result`, or go on to the cache write
Return(res) == [next |-> "return", result |-> res, matches |-> <<>>]
GoWrite(ms) == [next |-> "write", result |-> Null, matches |-> ms]

\* tokens.filter(t => t.symbol.toUpperCase() === symbol) raises a TypeError
FilterThrows(body) ==
    \/ ~body.isArray
    \/ \E i \in 1..Len(body.items) : body.items[i].symbol = Undefined

SymbolIs(t, symbol) == ToUpperCase(t.symbol) = symbol

FilterBySymbol(items, symbol) ==
    LET Test(t) == SymbolIs(t, symbol) IN SelectSeq(items, Test)

\* mutant of MatchOf: the name is taken for the address
MatchOfNameAsAddress(t) == [address |-> t.name, name |-> t.name, symbol |-> t.symbol]

\* matches.map(t => ({ address, name, symbol }))
MatchOf(t) == [address |-> t.address, name |-> t.name, symbol |-> t.symbol]
MapMatches(ms) == [i \in 1..Len(ms) |-> MatchOf(ms[i])]

\* mutant of SolanaOutcome: several matches are not told apart from one, the first is taken
SolanaOutcomeFirstMatch(response, symbol) ==
    IF response.kind = "reject" \/ ~Ok(response) \/ ~response.json
    THEN Return(NotFound(Text("Could not reach the Jupiter token registry: ${String(err)}",
                              response.error)))
    ELSE IF FilterThrows(response)
    THEN Return(Threw(TypeError))
    ELSE LET ms == FilterBySymbol(response.items, symbol) IN
         IF Len(ms) = 0
         THEN Return(NotFound(Text("No token with symbol ${symbol} found in the Jupiter strict token list. If you have the contract address, paste it directly.",
                                   symbol)))
         ELSE GoWrite(ms)

\* mutant of SolanaOutcome: a body that is not JSON is taken for an empty list
SolanaOutcomeEmptyOnBadJson(response, symbol) ==
    IF response.kind = "reject"
    THEN Return(NotFound(Text("Could not reach the Jupiter token registry: ${String(err)}",
                              response.error)))
    ELSE IF ~Ok(response)
    THEN Return(NotFound(Text("Jupiter token registry returned HTTP ${response.status}. Try again later.",
                              NumberToString(response.status))))
    ELSE IF ~response.json \/ FilterBySymbol(response.items, symbol) = <<>>
    THEN Return(NotFound(Text("No token with symbol ${symbol} found in the Jupiter strict token list. If you have the contract address, paste it directly.",
                              symbol)))
    ELSE IF Len(FilterBySymbol(response.items, symbol)) > 1
    THEN Return(Ambiguous(MapMatches(FilterBySymbol(response.items, symbol))))
    ELSE GoWrite(FilterBySymbol(response.items, symbol))

\* lookupSolanaToken from the fetch to the decision on `matches`
SolanaOutcome(response, symbol) ==
    IF response.kind = "reject"
    THEN Return(NotFound(Text("Could not reach the Jupiter token registry: ${String(err)}",
                              response.error)))
    ELSE IF ~Ok(response)
    THEN Return(NotFound(Text("Jupiter token registry returned HTTP ${response.status}. Try again later.",
                              NumberToString(response.status))))
    ELSE IF ~response.json
    THEN Return(NotFound(Text("Could not reach the Jupiter token registry: ${String(err)}",
                              response.error)))
    ELSE IF FilterThrows(response)
    THEN Return(Threw(TypeError))
    ELSE LET ms == FilterBySymbol(response.items, symbol) IN
         IF Len(ms) = 0
         THEN Return(NotFound(Text("No token with symbol ${symbol} found in the Jupiter strict token list. If you have the contract address, paste it directly.",
                                   symbol)))
         ELSE IF Len(ms) > 1
         THEN Return(Ambiguous(MapMatches(ms)))
         ELSE GoWrite(ms)

-----------------------------------------------------------------------------
(* lookupEvmToken *)

\* the /coins/list entry of a coin: what the list request shows of it
ListEntry(c) == [id |-> c.id, symbol |-> c.symbol, name |-> c.name]

\* mutant of Slice5: every match is a candidate
SliceAll(ms) == ms

\* matches.slice(0, 5)
MaxCandidates == 5
\* mutant of Slice5: the loop goes over the candidates a second time
Slice5Retried(ms) ==
    SubSeq(ms, 1, IF Len(ms) < MaxCandidates THEN Len(ms) ELSE MaxCandidates)
        \o SubSeq(ms, 1, IF Len(ms) < MaxCandidates THEN Len(ms) ELSE MaxCandidates)
Slice5(ms) == SubSeq(ms, 1, IF Len(ms) < MaxCandidates THEN Len(ms) ELSE MaxCandidates)

\* lookupEvmToken from the list fetch to the candidates: Return, or the candidates
EvmListOutcome(response, symbol) ==
    IF response.kind = "reject"
    THEN Return(NotFound(Text("Could not reach the CoinGecko API: ${String(err)}",
                              response.error)))
    ELSE IF ~Ok(response)
    THEN Return(NotFound(Text("CoinGecko API returned HTTP ${response.status}. Try again later.",
                              NumberToString(response.status))))
    ELSE IF ~response.json
    THEN Return(NotFound(Text("Could not reach the CoinGecko API: ${String(err)}",
                              response.error)))
    ELSE IF FilterThrows(response)
    THEN Return(Threw(TypeError))
    ELSE LET all == FilterBySymbol(response.items, symbol)
             ms  == [i \in 1..Len(all) |-> ListEntry(all[i])] IN
         IF Len(ms) = 0
         THEN Return(NotFound(Text("No token with symbol ${symbol} found in CoinGecko. If you have the contract address, paste it directly.",
                                   symbol)))
         ELSE [next |-> "detail", result |-> Null, matches |-> Slice5(ms)]

\* the detail request gave a coin object: no rejection, a 2xx status, a JSON body, not null
Delivered(response) ==
    /\ response.kind = "response"
    /\ Ok(response)
    /\ response.json
    /\ ~response.items[1].isNull

\* one pass of the loop body: resolvedMatches after the detail response of a candidate
AfterDetail(resolvedSoFar, response) ==
    IF response.kind = "reject" \/ ~Ok(response) \/ ~response.json
    THEN resolvedSoFar
    ELSE LET detail == response.items[1] IN
         IF detail.isNull THEN resolvedSoFar
         ELSE IF detail.ethereum = Undefined \/ Len(detail.ethereum) = 0 THEN resolvedSoFar
         ELSE IF detail.symbol = Undefined THEN resolvedSoFar
         ELSE Append(resolvedSoFar,
                     [address |-> detail.ethereum, name |-> detail.name,
                      symbol |-> ToUpperCase(detail.symbol)])

\* the decision after the loop
EvmOutcome(resolvedAll, symbol) ==
    IF Len(resolvedAll) = 0
    THEN Return(NotFound(Text("Found ${symbol} on CoinGecko but could not resolve an Ethereum contract address. Paste the address directly if you have it.",
                              symbol)))
    ELSE IF Len(resolvedAll) > 1
    THEN Return(Ambiguous(resolvedAll))
    ELSE GoWrite(resolvedAll)

\* mutant of LookupStart: every chain but ethereum is sent to the Solana registry
LookupStartSolanaByDefault(table, t, symbol, chain) ==
    LET normalisedSymbol == NormaliseSymbol(symbol)
        normalisedChain  == NormaliseChain(chain)
        cacheKey         == CacheKey(normalisedChain, normalisedSymbol)
        entry            == GetCacheEntry(table, cacheKey, t)
    IN  IF IsNativeOn(normalisedSymbol, normalisedChain)
        THEN [next |-> "return", cached |-> Null, read |-> FALSE,
              result |-> FoundNative(normalisedSymbol, normalisedSymbol, normalisedChain)]
        ELSE IF entry.kind = "Threw"
        THEN [next |-> "return", cached |-> Null, read |-> TRUE, result |-> entry]
        ELSE IF entry.kind = "entry"
        THEN [next |-> "return", cached |-> entry, read |-> TRUE,
              result |-> FromCache(entry.entry, normalisedSymbol)]
        ELSE IF normalisedChain = ETHEREUM
        THEN [next |-> "fetchCoinList", cached |-> Null, read |-> TRUE, result |-> Null]
        ELSE [next |-> "fetchJupiter", cached |-> Null, read |-> TRUE, result |-> Null]

\* lookupToken up to its first await of a registry: the native fast path, the cache
\* check and the dispatch on the chain, on table `table` at time t
LookupStart(table, t, symbol, chain) ==
    LET normalisedSymbol == NormaliseSymbol(symbol)
        normalisedChain  == NormaliseChain(chain)
        cacheKey         == CacheKey(normalisedChain, normalisedSymbol)
        entry            == GetCacheEntry(table, cacheKey, t)
    IN  IF IsNativeOn(normalisedSymbol, normalisedChain)
        THEN [next |-> "return", cached |-> Null, read |-> FALSE,
              result |-> FoundNative(normalisedSymbol, normalisedSymbol, normalisedChain)]
        ELSE IF entry.kind = "Threw"
        THEN [next |-> "return", cached |-> Null, read |-> TRUE, result |-> entry]
        ELSE IF entry.kind = "entry"
        THEN [next |-> "return", cached |-> entry, read |-> TRUE,
              result |-> FromCache(entry.entry, normalisedSymbol)]
        ELSE IF normalisedChain = SOLANA
        THEN [next |-> "fetchJupiter", cached |-> Null, read |-> TRUE, result |-> Null]
        ELSE IF normalisedChain = ETHEREUM
        THEN [next |-> "fetchCoinList", cached |-> Null, read |-> TRUE, result |-> Null]
        ELSE [next |-> "return", cached |-> Null, read |-> TRUE,
              result |-> NotFound(UnsupportedChainText(chain))]

-----------------------------------------------------------------------------
(* verifyAddress *)

MinSolanaLength == 32
MaxSolanaLength == 44

\* mutant of WrongLength: the two ends of the range are rejected too
WrongLengthInclusive(address) ==
    Len(address) <= MinSolanaLength \/ Len(address) >= MaxSolanaLength

\* address.length < 32 || address.length > 44
WrongLength(address) == Len(address) < MinSolanaLength \/ Len(address) > MaxSolanaLength

HexChars == {"0","1","2","3","4","5","6","7","8","9",
             "a","b","c","d","e","f","A","B","C","D","E","F"}

\* mutant of EvmAddressPattern: the pattern is not anchored, /0x[0-9a-fA-F]{40}/
EvmAddressPatternUnanchored(address) ==
    \E k \in 0..(Len(address) - 42) :
        /\ address[k + 1] = "0"
        /\ address[k + 2] = "x"
        /\ \A i \in 3..42 : address[k + i] \in HexChars

\* /^0x[0-9a-fA-F]{40}$/.test(address)
EvmAddressPattern(address) ==
    /\ Len(address) = 42
    /\ address[1] = "0"
    /\ address[2] = "x"
    /\ \A i \in 3..42 : address[i] \in HexChars

WarnLength == Text("This does not appear to be a valid Solana address (wrong length). Double-check before proceeding - transactions are irreversible.", NoArg)
WarnNotListed == Text("This address is not in the Jupiter strict token list. This may be a valid but unverified token. Proceed with extreme caution - transactions are irreversible. Only continue if you are certain of this address.", NoArg)
WarnEvmInvalid == Text("This does not appear to be a valid Ethereum address. Double-check before proceeding - transactions are irreversible.", NoArg)
WarnEvmNoCrossRef == Text("This Ethereum address has valid format but is not cross-referenced against CoinGecko. Verify it via a block explorer before proceeding - transactions are irreversible.", NoArg)
WarnNoRegistry(chain) == Text("Address verification against a registry is not available for ${chain}. Verify this address via a block explorer before proceeding - transactions are irreversible.", chain)

\* mutant of VerifyStart: every chain but ethereum is verified against the Solana list
VerifyStartSolanaByDefault(address, chain) ==
    LET normalisedChain == NormaliseChain(chain) IN
    IF normalisedChain = ETHEREUM
    THEN IF ~EvmAddressPattern(address)
         THEN [next |-> "return", result |-> Unverified(WarnEvmInvalid)]
         ELSE [next |-> "return", result |-> Unverified(WarnEvmNoCrossRef)]
    ELSE IF WrongLength(address)
    THEN [next |-> "return", result |-> Unverified(WarnLength)]
    ELSE [next |-> "fetchVerify", result |-> Null]

\* verifyAddress up to its fetch of the Jupiter list
VerifyStart(address, chain) ==
    LET normalisedChain == NormaliseChain(chain) IN
    IF normalisedChain = SOLANA
    THEN IF WrongLength(address)
         THEN [next |-> "return", result |-> Unverified(WarnLength)]
         ELSE [next |-> "fetchVerify", result |-> Null]
    ELSE IF normalisedChain = ETHEREUM
    THEN IF ~EvmAddressPattern(address)
         THEN [next |-> "return", result |-> Unverified(WarnEvmInvalid)]
         ELSE [next |-> "return", result |-> Unverified(WarnEvmNoCrossRef)]
    ELSE [next |-> "return", result |-> Unverified(WarnNoRegistry(chain))]

\* t.address.toLowerCase() === address.toLowerCase()
AddressIs(t, address) == ToLowerCase(t.address) = ToLowerCase(address)

\* tokens.find(...): the first position where the callback returns true or raises; 0 for none
FirstStop(items, address) ==
    LET stops == {i \in 1..Len(items) :
                     items[i].address = Undefined \/ AddressIs(items[i], address)}
    IN  IF stops = {} THEN 0 ELSE CHOOSE i \in stops : \A j \in stops : i <= j

\* verifyAddress on Solana from the fetch on: everything raised inside the try is caught
VerifySolanaOutcome(response, address) ==
    IF response.kind = "reject" \/ ~Ok(response) \/ ~response.json \/ ~response.isArray
    THEN Unverified(WarnNotListed)
    ELSE LET i == FirstStop(response.items, address) IN
         IF i = 0 THEN Unverified(WarnNotListed)
         ELSE IF response.items[i].address = Undefined THEN Unverified(WarnNotListed)
         ELSE Verified(response.items[i].name, response.items[i].symbol, SOLANA)

-----------------------------------------------------------------------------
(* The agent thread: what the tools returned to it and what it sent on *)

EmptyThread == [lookedUp |-> {}, verifiedOk |-> {}, unverified |-> {}, confirmed |-> {},
                mcpCalls |-> <<>>]

\* args of a data_integrity call: { lookup?, verify?, chain }
ToolArgs(lookup, verify, chain) == [lookup |-> lookup, verify |-> verify, chain |-> chain]
NoCall == ToolArgs(Undefined, Undefined, Undefined)

MatchAddresses(ms) == {ms[i].address : i \in 1..Len(ms)}

\* the thread after data_integrity returned `res` for the call `a`
Observe(th, a, res) ==
    IF th = Null THEN th
    ELSE CASE res.kind = "FoundToken" ->
                [th EXCEPT !.lookedUp = @ \cup {res.address}]
           [] res.kind = "Ambiguous" ->
                [th EXCEPT !.lookedUp = @ \cup MatchAddresses(res.matches)]
           [] res.kind = "Verified" ->
                [th EXCEPT !.verifiedOk = @ \cup {a.verify}]
           [] res.kind = "Unverified" ->
                [th EXCEPT !.unverified = @ \cup {a.verify}]
           [] OTHER -> th

\* the addresses the thread may use: looked up, verified, or unverified and confirmed
Vetted(th) == th.lookedUp \cup th.verifiedOk \cup (th.unverified \cap th.confirmed)

-----------------------------------------------------------------------------
(* The system beside the resolver, before any request *)

\* the secret the deployment is configured with
WebhookSecret == <<"w","h","s","e","c">>

\* no call yet
NoRequest == [fn |-> "none", args |-> Null, outcome |-> "none"]

\* the messages the service worker can be sent
WorkerRequests == {"r1", "r2", "r3"}

\* a request not sent yet
NoFlow == [type |-> "none", pc |-> "none", value |-> Null, flag |-> FALSE,
           callback |-> Null]

\* module variable holding null
NoSlot == "null"

\* the service worker after it was loaded, with no session stored
InitWorker ==
    /\ storage = Null
    /\ broadcasts = <<>>
    /\ flows = [r \in WorkerRequests |-> NoFlow]
    /\ answers = [r \in WorkerRequests |-> <<>>]
    /\ expectNull = FALSE
    /\ authTabId = NoSlot
    /\ authPromiseResolve = NoSlot
    /\ authPromiseReject = NoSlot
    /\ callbacks = <<>>

\* empty tables, nothing scheduled, no request answered
InitApp ==
    /\ webhookSecret = WebhookSecret
    /\ phantomSessions = <<>>
    /\ pendingApprovals = <<>>
    /\ agentThreads = <<>>
    /\ savedMessages = <<>>
    /\ scheduled = <<>>
    /\ toolRuns = <<>>
    /\ lastCall = NoRequest
    /\ InitWorker

-----------------------------------------------------------------------------
(* State machine *)

\* the instants the clock is observed at: each multiple of the TTL and the millisecond
\* after it (0, 1, TTL, TTL + 1, 2 * TTL, ...)
ClockAt(k) == (k \div 2) * CACHE_TTL_MS + (k % 2)
ClockValues == {ClockAt(k) : k \in 0..MaxClock}

Init ==
    /\ now = 0
    /\ tokenAddressCache = <<>>
    /\ active = {"c1"}
    /\ pc = [p \in Procs |-> "idle"]
    /\ args = [p \in Procs |-> NoCall]
    /\ cached = [p \in Procs |-> Null]
    /\ readAt = [p \in Procs |-> 0]
    /\ cacheAtStart = [p \in Procs |-> <<>>]
    /\ registry = [p \in Procs |-> Null]
    /\ matches = [p \in Procs |-> <<>>]
    /\ resolvedMatches = [p \in Procs |-> <<>>]
    /\ detailIdx = [p \in Procs |-> 0]
    /\ requests = [p \in Procs |-> <<>>]
    /\ details = [p \in Procs |-> <<>>]
    /\ result = [p \in Procs |-> Null]
    /\ resolved = <<>>
    /\ thread = Null
    /\ InitApp

\* the call of p returns res
Finish(p, a, res) ==
    /\ pc' = [pc EXCEPT ![p] = "idle"]
    /\ result' = [result EXCEPT ![p] = res]
    /\ thread' = Observe(thread, a, res)
    /\ UNCHANGED appVars

\* the call of p goes on at `next`
Continue(p, next) ==
    /\ pc' = [pc EXCEPT ![p] = next]
    /\ result' = [result EXCEPT ![p] = Null]
    /\ thread' = thread
    /\ UNCHANGED appVars

\* data_integrity's handler up to the first registry request of the action it runs
DataIntegrity(p, lookup, verify, chain) ==
    /\ p \in active
    /\ pc[p] = "idle"
    /\ args' = [args EXCEPT ![p] = ToolArgs(lookup, verify, chain)]
    /\ cacheAtStart' = [cacheAtStart EXCEPT ![p] = tokenAddressCache]
    /\ registry' = [registry EXCEPT ![p] = Null]
    /\ matches' = [matches EXCEPT ![p] = <<>>]
    /\ resolvedMatches' = [resolvedMatches EXCEPT ![p] = <<>>]
    /\ detailIdx' = [detailIdx EXCEPT ![p] = 0]
    /\ requests' = [requests EXCEPT ![p] = <<>>]
    /\ details' = [details EXCEPT ![p] = <<>>]
    /\ IF lookup # Undefined
       THEN LET s == LookupStart(tokenAddressCache, now, lookup, chain) IN
            /\ cached' = [cached EXCEPT ![p] = s.cached]
            /\ readAt' = [readAt EXCEPT ![p] = IF s.read THEN now ELSE 0]
            /\ IF s.next = "return" THEN Finish(p, ToolArgs(lookup, verify, chain), s.result) ELSE Continue(p, s.next)
       ELSE IF verify # Undefined
       THEN LET s == VerifyStart(verify, chain) IN
            /\ cached' = [cached EXCEPT ![p] = Null]
            /\ readAt' = [readAt EXCEPT ![p] = 0]
            /\ IF s.next = "return" THEN Finish(p, ToolArgs(lookup, verify, chain), s.result) ELSE Continue(p, s.next)
       ELSE /\ cached' = [cached EXCEPT ![p] = Null]
            /\ readAt' = [readAt EXCEPT ![p] = 0]
            /\ Finish(p, ToolArgs(lookup, verify, chain), ErrorResult)
    /\ UNCHANGED <<now, tokenAddressCache, active, resolved>>

\* the key of the lookup p runs
KeyOf(a) == CacheKey(NormaliseChain(a.chain), NormaliseSymbol(a.lookup))

\* lookupSolanaToken: the fetch of the strict list and the decision on the matches
FetchJupiter(p, response) ==
    /\ pc[p] = "fetchJupiter"
    /\ requests' = [requests EXCEPT ![p] = Append(@, "jupiter:strict")]
    /\ registry' = [registry EXCEPT ![p] = response]
    /\ LET o == SolanaOutcome(response, NormaliseSymbol(args[p].lookup)) IN
       /\ matches' = [matches EXCEPT ![p] = o.matches]
       /\ IF o.next = "return" THEN Finish(p, args[p], o.result) ELSE Continue(p, "writeCache")
    /\ UNCHANGED <<now, tokenAddressCache, active, args, cached, readAt, cacheAtStart,
                   resolvedMatches, detailIdx, details, resolved>>

\* lookupEvmToken: the fetch of /coins/list and the choice of the candidates
FetchCoinList(p, response) ==
    /\ pc[p] = "fetchCoinList"
    /\ requests' = [requests EXCEPT ![p] = Append(@, "coingecko:list")]
    /\ registry' = [registry EXCEPT ![p] = response]
    /\ LET o == EvmListOutcome(response, NormaliseSymbol(args[p].lookup)) IN
       /\ matches' = [matches EXCEPT ![p] = o.matches]
       /\ detailIdx' = [detailIdx EXCEPT ![p] = IF o.next = "detail" THEN 1 ELSE 0]
       /\ IF o.next = "return" THEN Finish(p, args[p], o.result) ELSE Continue(p, "fetchDetail")
    /\ UNCHANGED <<now, tokenAddressCache, active, args, cached, readAt, cacheAtStart,
                   resolvedMatches, details, resolved>>

\* lookupEvmToken: one pass of the loop over the candidates, and after the last
\* candidate the decision on resolvedMatches
FetchDetail(p, response) ==
    /\ pc[p] = "fetchDetail"
    /\ requests' = [requests EXCEPT ![p] = Append(@, matches[p][detailIdx[p]].id)]
    /\ LET r == AfterDetail(resolvedMatches[p], response) IN
       /\ resolvedMatches' = [resolvedMatches EXCEPT ![p] = r]
       /\ IF detailIdx[p] < Len(matches[p])
          THEN /\ detailIdx' = [detailIdx EXCEPT ![p] = @ + 1]
               /\ Continue(p, "fetchDetail")
          ELSE /\ detailIdx' = detailIdx
               /\ LET o == EvmOutcome(r, NormaliseSymbol(args[p].lookup)) IN
                  IF o.next = "return" THEN Finish(p, args[p], o.result) ELSE Continue(p, "writeCache")
    /\ details' = [details EXCEPT ![p] = Append(@, Delivered(response))]
    /\ UNCHANGED <<now, tokenAddressCache, active, args, cached, readAt, cacheAtStart,
                   registry, matches, resolved>>

\* `const token = matches[0]` / `const token = resolvedMatches[0]`
TokenOf(p) == IF NormaliseChain(args[p].chain) = SOLANA
              THEN MatchOf(matches[p][1])
              ELSE resolvedMatches[p][1]

\* mutant of WriteCache: the entry is written with isNative: true
WriteCacheNative(p) ==
    /\ pc[p] = "writeCache"
    /\ LET token == TokenOf(p)
           chain == NormaliseChain(args[p].chain)
           w == WriteCacheEntry(tokenAddressCache, KeyOf(args[p]), token.address,
                                token.name, chain, TRUE, now)
           res == FoundToken(token.address, token.name, token.symbol, chain)
       IN  /\ tokenAddressCache' = w.table
           /\ IF w.threw
              THEN /\ Finish(p, args[p], Threw(<<"E","r","r","o","r">>))
                   /\ resolved' = resolved
              ELSE /\ Finish(p, args[p], res)
                   /\ resolved' = (KeyOf(args[p]) :> [result |-> res, at |-> now]) @@ resolved
    /\ UNCHANGED <<now, active, args, cached, readAt, cacheAtStart, registry, matches,
                   resolvedMatches, detailIdx, requests, details>>

\* the end of lookupSolanaToken and of lookupEvmToken: runMutation(writeCacheEntry)
\* and the Found-Token result
WriteCache(p) ==
    /\ pc[p] = "writeCache"
    /\ LET token == TokenOf(p)
           chain == NormaliseChain(args[p].chain)
           w == WriteCacheEntry(tokenAddressCache, KeyOf(args[p]), token.address,
                                token.name, chain, FALSE, now)
           res == FoundToken(token.address, token.name, token.symbol, chain)
       IN  /\ tokenAddressCache' = w.table
           /\ IF w.threw
              THEN /\ Finish(p, args[p], Threw(<<"E","r","r","o","r">>))
                   /\ resolved' = resolved
              ELSE /\ Finish(p, args[p], res)
                   /\ resolved' = (KeyOf(args[p]) :> [result |-> res, at |-> now]) @@ resolved
    /\ UNCHANGED <<now, active, args, cached, readAt, cacheAtStart, registry, matches,
                   resolvedMatches, detailIdx, requests, details>>

\* mutant of FetchVerify: the fetch has no AbortSignal, and against a registry that does
\* not answer the call stays awaiting
FetchVerifyNoTimeout(p, response) ==
    /\ pc[p] = "fetchVerify"
    /\ requests' = [requests EXCEPT ![p] = Append(@, "jupiter:strict")]
    /\ registry' = [registry EXCEPT ![p] = response]
    /\ IF response = Reject(TimeoutError)
       THEN Continue(p, "awaiting")
       ELSE Finish(p, args[p], VerifySolanaOutcome(response, args[p].verify))
    /\ UNCHANGED <<now, tokenAddressCache, active, args, cached, readAt, cacheAtStart,
                   matches, resolvedMatches, detailIdx, details, resolved>>

\* verifyAddress on Solana: the fetch of the strict list and the search for the address
FetchVerify(p, response) ==
    /\ pc[p] = "fetchVerify"
    /\ requests' = [requests EXCEPT ![p] = Append(@, "jupiter:strict")]
    /\ registry' = [registry EXCEPT ![p] = response]
    /\ Finish(p, args[p], VerifySolanaOutcome(response, args[p].verify))
    /\ UNCHANGED <<now, tokenAddressCache, active, args, cached, readAt, cacheAtStart,
                   matches, resolvedMatches, detailIdx, details, resolved>>

\* time passes
Tick(t) ==
    /\ t > now
    /\ now' = t
    /\ UNCHANGED <<tokenAddressCache, active, callVars, resolved, thread, appVars>>

-----------------------------------------------------------------------------
(* Inputs *)

LookupInputs ==
    { <<SOL, SOLANA>>,
      <<<<"$","s","o","l">>, <<"S","o","l","a","n","a">>>>,
      <<<<"e","t","h">>, ETHEREUM>>,
      <<<<"$","B","t","c">>, BITCOIN>>,
      <<<<"S","u","i">>, SUI>>,
      <<<<"$","$","S","O","L">>, SOLANA>>,
      <<ETH, SOLANA>>,
      <<BONK, SOLANA>>,
      <<<<"$","b","o","n","k">>, <<"S","o","l","a","n","a">>>>,
      <<<<"u","s","d","c">>, ETHEREUM>>,
      <<BONK, BITCOIN>>,
      <<<<"e","t","h">>, <<"S","u","i">>>>,
      <<BONK, <<"d","o","g","e">>>>,
      <<SOL, <<"D","o","g","e">>>> }

ShortAddress == Rep("1", 10)
VerifyInputs ==
    { <<BonkMintA, SOLANA>>,
      <<ToLowerCase(BonkMintB), SOLANA>>,
      <<ShortAddress, SOLANA>>,
      <<Rep("1", 31), SOLANA>>,
      <<Rep("1", 45), <<"S","O","L","A","N","A">>>>,
      <<UsdcAddrA, ETHEREUM>>,
      <<ShortAddress, ETHEREUM>>,
      <<UsdcAddrA \o <<"6">>, <<"E","t","h","e","r","e","u","m">>>>,
      <<<<"0","X">> \o Rep("a", 40), ETHEREUM>>,
      <<<<"0","x","g">> \o Rep("a", 39), ETHEREUM>>,
      <<BonkMintA, BITCOIN>>,
      <<ShortAddress, <<"S","u","i">>>> }

Next ==
    \/ \E p \in Procs, in \in LookupInputs : DataIntegrity(p, in[1], Undefined, in[2])
    \/ \E p \in Procs, in \in VerifyInputs : DataIntegrity(p, Undefined, in[1], in[2])
    \/ \E p \in Procs : DataIntegrity(p, Undefined, Undefined, SOLANA)
    \/ \E p \in Procs, r \in JupiterResponses : FetchJupiter(p, r)
    \/ \E p \in Procs, r \in CoinGeckoResponses : FetchCoinList(p, r)
    \/ \E p \in Procs :
          /\ pc[p] = "fetchDetail"
          /\ \E r \in DetailResponses(registry[p].items, matches[p][detailIdx[p]].id) :
                FetchDetail(p, r)
    \/ \E p \in Procs : WriteCache(p)
    \/ \E p \in Procs, r \in JupiterResponses : FetchVerify(p, r)
    \/ \E t \in ClockValues : Tick(t)

Spec == Init /\ [][Next]_vars

-----------------------------------------------------------------------------
(* The agent's wallet tools (agent.ts) *)

\* what runMcpTool forwards to the wallet service: the tool's name and the token
\* addresses among its arguments (Undefined: the argument is left out); `vetted`
\* records, for the claims, the addresses the thread had obtained by then
McpCall(toolName, tokenMint, buyTokenMint, sellTokenMint, vetted) ==
    [toolName |-> toolName, tokenMint |-> tokenMint, buyTokenMint |-> buyTokenMint,
     sellTokenMint |-> sellTokenMint, vetted |-> vetted]

\* runMcpTool(ctx, toolName, args, session)
RunMcpTool(call) ==
    /\ thread # Null
    /\ Len(thread.mcpCalls) < MaxMcpCalls
    /\ thread' = [thread EXCEPT !.mcpCalls = Append(@, call)]
    /\ UNCHANGED <<now, tokenAddressCache, active, callVars, resolved, appVars>>

\* transfer_tokens' handler: tokenMint is copied to the forwarded args when it is given
TransferTokens(tokenMint) ==
    RunMcpTool(McpCall("transfer_tokens", tokenMint, Undefined, Undefined, Vetted(thread)))

\* buy_token's handler: buyTokenMint and sellTokenMint are copied when they are given
BuyToken(buyTokenMint, sellTokenMint) ==
    RunMcpTool(McpCall("buy_token", Undefined, buyTokenMint, sellTokenMint, Vetted(thread)))

\* the user answers the Unverified warning with "yes proceed"
UserConfirm(address) ==
    /\ thread # Null
    /\ address \in thread.unverified
    /\ address \notin thread.confirmed
    /\ thread' = [thread EXCEPT !.confirmed = @ \cup {address}]
    /\ UNCHANGED <<now, tokenAddressCache, active, callVars, resolved, appVars>>

\* an address no registry lists and no tool returned
FakeMint == <<"F","a","k","e">> \o Rep("3", 30)

AgentMints == {BonkMintA, BonkMintB, FakeMint}

AgentLookups == { <<SOL, SOLANA>>, <<BONK, SOLANA>> }
AgentVerifies == { <<BonkMintA, SOLANA>>, <<FakeMint, SOLANA>> }

InitAgent ==
    /\ now = 0
    /\ tokenAddressCache = <<>>
    /\ active = {"c1"}
    /\ pc = [p \in Procs |-> "idle"]
    /\ args = [p \in Procs |-> NoCall]
    /\ cached = [p \in Procs |-> Null]
    /\ readAt = [p \in Procs |-> 0]
    /\ cacheAtStart = [p \in Procs |-> <<>>]
    /\ registry = [p \in Procs |-> Null]
    /\ matches = [p \in Procs |-> <<>>]
    /\ resolvedMatches = [p \in Procs |-> <<>>]
    /\ detailIdx = [p \in Procs |-> 0]
    /\ requests = [p \in Procs |-> <<>>]
    /\ details = [p \in Procs |-> <<>>]
    /\ result = [p \in Procs |-> Null]
    /\ resolved = <<>>
    /\ thread = EmptyThread
    /\ InitApp

NextAgent ==
    \/ \E p \in Procs, in \in AgentLookups : DataIntegrity(p, in[1], Undefined, in[2])
    \/ \E p \in Procs, in \in AgentVerifies : DataIntegrity(p, Undefined, in[1], in[2])
    \/ \E p \in Procs, r \in JupiterResponses : FetchJupiter(p, r)
    \/ \E p \in Procs : WriteCache(p)
    \/ \E p \in Procs, r \in JupiterResponses : FetchVerify(p, r)
    \/ \E m \in AgentMints \cup {Undefined} : TransferTokens(m)
    \/ \E b \in AgentMints \cup {Undefined}, s \in {BonkMintA, Undefined} : BuyToken(b, s)
    \/ \E a \in AgentMints : UserConfirm(a)

SpecAgent == InitAgent /\ [][NextAgent]_vars

-----------------------------------------------------------------------------
(* Concurrent callers: two data_integrity calls in flight at once. Each action awaits
   its fetches, so the steps of two calls interleave; getCacheEntry and writeCacheEntry
   are a Convex query and a Convex mutation, each a transaction of its own. *)

ConcLookups == { <<BONK, SOLANA>>, <<<<"$","b","o","n","k">>, <<"S","o","l","a","n","a">>>> }

\* the registry changes between the two fetches: one listing, then another
ConcJupiterResponses ==
    { Reject(TimeoutError),
      JsonArray(200, <<TokWsol, TokBonkA>>),
      JsonArray(200, <<TokBonkB>>),
      JsonArray(200, <<TokBonkA, TokBonkB>>) }

InitConc ==
    /\ now = 0
    /\ tokenAddressCache = <<>>
    /\ active = Procs
    /\ pc = [p \in Procs |-> "idle"]
    /\ args = [p \in Procs |-> NoCall]
    /\ cached = [p \in Procs |-> Null]
    /\ readAt = [p \in Procs |-> 0]
    /\ cacheAtStart = [p \in Procs |-> <<>>]
    /\ registry = [p \in Procs |-> Null]
    /\ matches = [p \in Procs |-> <<>>]
    /\ resolvedMatches = [p \in Procs |-> <<>>]
    /\ detailIdx = [p \in Procs |-> 0]
    /\ requests = [p \in Procs |-> <<>>]
    /\ details = [p \in Procs |-> <<>>]
    /\ result = [p \in Procs |-> Null]
    /\ resolved = <<>>
    /\ thread = Null
    /\ InitApp

NextConc ==
    \/ \E p \in Procs, in \in ConcLookups : DataIntegrity(p, in[1], Undefined, in[2])
    \/ \E p \in Procs, r \in ConcJupiterResponses : FetchJupiter(p, r)
    \/ \E p \in Procs : WriteCache(p)
    \/ \E t \in ClockValues : Tick(t)

SpecConc == InitConc /\ [][NextConc]_vars

-----------------------------------------------------------------------------
(* The cache on its own: writeCacheEntry and getCacheEntry run with arguments of every
   kind the validators admit, not only those the two lookups pass *)

CacheKeys == { CacheKey(SOLANA, BONK), CacheKey(ETHEREUM, USDC) }

\* the values written: [address, name, chain, isNative]
CacheValue(address, name, chain, isNative) ==
    [address |-> address, name |-> name, chain |-> chain, isNative |-> isNative]
CacheValues ==
    { CacheValue(BonkMintA, BonkName, SOLANA, FALSE),
      CacheValue(BonkMintB, BONK, SOLANA, TRUE),
      CacheValue(UsdcAddrA, USDC, ETHEREUM, FALSE),
      CacheValue(UsdcAddrA, BonkName, SUI, TRUE) }

\* ctx.runMutation(writeCacheEntry, { cacheKey, address, name, chain, isNative });
\* `resolved` keeps what was last written under the key, and when
CacheWrite(cacheKey, v) ==
    /\ LET w == WriteCacheEntry(tokenAddressCache, cacheKey, v.address, v.name, v.chain,
                                v.isNative, now)
       IN  /\ ~w.threw
           /\ tokenAddressCache' = w.table
    /\ resolved' = (cacheKey :> [result |-> v, at |-> now]) @@ resolved
    /\ UNCHANGED <<now, active, callVars, thread, appVars>>

\* ctx.runQuery(getCacheEntry, { cacheKey }) by caller p
CacheRead(p, cacheKey) ==
    /\ p \in active
    /\ args' = [args EXCEPT ![p] = ToolArgs(cacheKey, Undefined, Undefined)]
    /\ cached' = [cached EXCEPT ![p] = GetCacheEntry(tokenAddressCache, cacheKey, now)]
    /\ readAt' = [readAt EXCEPT ![p] = now]
    /\ UNCHANGED <<now, tokenAddressCache, active, pc, cacheAtStart, registry, matches,
                   resolvedMatches, detailIdx, requests, details, result, resolved, thread,
                   appVars>>

NextCache ==
    \/ \E k \in CacheKeys, v \in CacheValues : CacheWrite(k, v)
    \/ \E p \in Procs, k \in CacheKeys : CacheRead(p, k)
    \/ \E t \in ClockValues : Tick(t)

SpecCache == Init /\ [][NextCache]_vars

-----------------------------------------------------------------------------
(* Progress: every fetch carries AbortSignal.timeout(10_000), so each awaited request
   settles (an answer, or the TimeoutError rejection), and the Convex query and
   mutation return; a call that is under way therefore takes its next step *)

\* the next step of p's call
CallStep(p) ==
    \/ \E r \in JupiterResponses : FetchJupiter(p, r)
    \/ \E r \in CoinGeckoResponses : FetchCoinList(p, r)
    \/ /\ pc[p] = "fetchDetail"
       /\ \E r \in DetailResponses(registry[p].items, matches[p][detailIdx[p]].id) :
             FetchDetail(p, r)
    \/ WriteCache(p)
    \/ \E r \in JupiterResponses : FetchVerify(p, r)

SpecLive == Init /\ [][Next]_vars /\ \A p \in Procs : WF_vars(CallStep(p))

-----------------------------------------------------------------------------
(* Vocabulary of the claims *)

\* the call of p has returned (or raised)
Done(p) == pc[p] = "idle" /\ result[p] # Null
IsLookup(p) == args[p].lookup # Undefined
IsVerify(p) == args[p].lookup = Undefined /\ args[p].verify # Undefined

\* the native-asset table as the specification gives it: symbol and its chain
NativeTable == { <<SOL, SOLANA>>, <<ETH, ETHEREUM>>, <<BTC, BITCOIN>>,
                 <<<<"S","U","I">>, SUI>> }

SameLetters(s, t) == ToLowerCase(s) = ToLowerCase(t)

\* a is a lookup of a native symbol on its own chain, with or without "$", in any case
AsksNative(a) ==
    \E n \in NativeTable :
        /\ \/ SameLetters(a.lookup, n[1])
           \/ SameLetters(a.lookup, <<"$">> \o n[1])
        /\ SameLetters(a.chain, n[2])

\* the addresses the registry that p's call fetched holds for the symbol asked:
\* Jupiter entries with the symbol, CoinGecko coins with the symbol and an Ethereum contract
ListedOk(p) == registry[p] # Null /\ registry[p].kind = "response" /\ Ok(registry[p])
               /\ registry[p].json /\ registry[p].isArray
RegistryAddresses(p) ==
    LET items == registry[p].items
        sym == StripDollar(args[p].lookup)
        hits == {i \in 1..Len(items) : SameLetters(items[i].symbol, sym)}
    IN  IF SameLetters(args[p].chain, SOLANA)
        THEN {items[i].address : i \in hits}
        ELSE {items[i].ethereum : i \in hits} \ {Undefined}

\* the row of the key in a table, as a set (empty when there is none)
RowsOf(table, cacheKey) == {table[i] : i \in RowsWithKey(table, cacheKey)}

-----------------------------------------------------------------------------
(* C1 *)

\* C1: every token address forwarded to the wallet service (tokenMint, buyTokenMint,
\* sellTokenMint) was, before that call, returned by a data_integrity lookup, or
\* verified, or answered Unverified and then confirmed by the user.
C1_OnlyVettedAddressesForwarded ==
    thread # Null =>
        \A i \in 1..Len(thread.mcpCalls) :
            LET c == thread.mcpCalls[i] IN
            ({c.tokenMint, c.buyTokenMint, c.sellTokenMint} \ {Undefined}) \subseteq c.vetted

-----------------------------------------------------------------------------
(* C2 *)

\* C2: no cache read returns as a hit an entry whose cachedAt is more than 24 hours
\* before the read: neither the read a call made, nor a read of any key made now.
C2_NoStaleHit ==
    /\ \A p \in Procs :
          cached[p].kind = "entry" => readAt[p] - cached[p].entry.cachedAt <= CACHE_TTL_MS
    /\ \A i \in 1..Len(tokenAddressCache) :
          LET e == GetCacheEntry(tokenAddressCache, tokenAddressCache[i].cacheKey, now) IN
          e.kind = "entry" => now - e.entry.cachedAt <= CACHE_TTL_MS

\* a call read a key whose row was older than 24 hours, and the read was a miss
C2_Witness ==
    \E p \in Procs :
        /\ IsLookup(p)
        /\ cached[p] = Null
        /\ \E r \in RowsOf(cacheAtStart[p], KeyOf(args[p])) :
              readAt[p] - r.cachedAt > CACHE_TTL_MS

-----------------------------------------------------------------------------
(* C3 *)

\* C3: a lookup of SOL, ETH, BTC or SUI on its own chain, with or without a leading
\* "$" and in any letter case, returns Found-Native and makes no registry request.
C3_NativeWithoutRegistry ==
    \A p \in Procs :
        (Done(p) /\ IsLookup(p) /\ AsksNative(args[p])) =>
            /\ result[p].kind = "FoundNative"
            /\ requests[p] = <<>>
            /\ registry[p] = Null

\* "$sol" on "Solana" was answered Found-Native
C3_Witness ==
    \E p \in Procs :
        /\ Done(p)
        /\ args[p].lookup = <<"$","s","o","l">>
        /\ args[p].chain = <<"S","o","l","a","n","a">>
        /\ result[p].kind = "FoundNative"

-----------------------------------------------------------------------------
(* C4 *)

\* C4: when the normalised symbol is native to the requested chain, lookup returns
\* Found-Native for that symbol and chain whatever the cache holds, without reading
\* the cache and without changing it.
C4_NativePriority ==
    \A p \in Procs :
        (Done(p) /\ IsLookup(p)
           /\ <<NormaliseSymbol(args[p].lookup), NormaliseChain(args[p].chain)>> \in NativeTable) =>
            /\ result[p] = FoundNative(NormaliseSymbol(args[p].lookup),
                                       NormaliseSymbol(args[p].lookup),
                                       NormaliseChain(args[p].chain))
            /\ cached[p] = Null
            /\ tokenAddressCache = cacheAtStart[p]

\* a native lookup was answered while the cache held entries
C4_Witness ==
    \E p \in Procs :
        /\ Done(p)
        /\ IsLookup(p)
        /\ AsksNative(args[p])
        /\ result[p].kind = "FoundNative"
        /\ Len(tokenAddressCache) > 0
        /\ tokenAddressCache = cacheAtStart[p]

-----------------------------------------------------------------------------
(* C5 *)

\* C5: whenever the registry a lookup fetched holds more than one distinct address
\* for the symbol (Jupiter entries; CoinGecko coins with an Ethereum contract, also
\* those whose detail fetch fails or that lie beyond the first five), the lookup
\* does not return Found-Token, caches nothing, and a list it returns as Ambiguous
\* is the full list.
C5_NeverAutoSelects ==
    \A p \in Procs :
        (Done(p) /\ IsLookup(p) /\ ListedOk(p) /\ Cardinality(RegistryAddresses(p)) > 1) =>
            /\ result[p].kind # "FoundToken"
            /\ tokenAddressCache = cacheAtStart[p]
            /\ result[p].kind = "Ambiguous" =>
                  MatchAddresses(result[p].matches) = RegistryAddresses(p)

-----------------------------------------------------------------------------
(* C6 *)

\* C6: a lookup that returns Ambiguous lists every address the registry holds for the
\* symbol, leaves the cache as it was when the call began, and a following lookup of
\* the same symbol and chain goes to the registry again.
C6_AmbiguousListsAllWritesNothing ==
    \A p \in Procs :
        (Done(p) /\ IsLookup(p) /\ result[p].kind = "Ambiguous") =>
            /\ MatchAddresses(result[p].matches) = RegistryAddresses(p)
            /\ tokenAddressCache = cacheAtStart[p]
            /\ LookupStart(tokenAddressCache, now, args[p].lookup, args[p].chain).next
                  \in {"fetchJupiter", "fetchCoinList"}

-----------------------------------------------------------------------------
(* C7 *)

\* C7: after a lookup returned Found-Token from a registry, a later lookup of the same
\* symbol and chain that begins within 24 hours returns the identical result (address,
\* name, symbol, chain) at once, without a registry request.
C7_RepeatIsIdentical ==
    [][\A p \in Procs : \A in \in LookupInputs :
          LET key == CacheKey(NormaliseChain(in[2]), NormaliseSymbol(in[1])) IN
          (/\ DataIntegrity(p, in[1], Undefined, in[2])
           /\ key \in DOMAIN resolved
           /\ now - resolved[key].at <= CACHE_TTL_MS)
          => /\ pc'[p] = "idle"
             /\ requests'[p] = <<>>
             /\ result'[p] = resolved[key].result]_vars

-----------------------------------------------------------------------------
(* C8 *)

\* the call of p began on a row of its key that was older than 24 hours
StaleAtStart(p) ==
    \E r \in RowsOf(cacheAtStart[p], KeyOf(args[p])) : readAt[p] - r.cachedAt > CACHE_TTL_MS

\* C8: a lookup that finds a cache entry older than 24 hours treats it as a miss: it
\* requests the registry, answers from what the registry returned, and on a single
\* match replaces the entry by one with the fresh address and a new cachedAt.
C8_StaleEntryIsRefetched ==
    \A p \in Procs :
        (IsLookup(p) /\ StaleAtStart(p)) =>
            /\ cached[p] = Null
            /\ pc[p] = "idle" => requests[p] # <<>>
            /\ (Done(p) /\ result[p].kind = "FoundToken") =>
                  /\ ListedOk(p)
                  /\ result[p].address \in RegistryAddresses(p)
                  /\ \A r \in RowsOf(tokenAddressCache, KeyOf(args[p])) :
                        /\ r.address = result[p].address
                        /\ r.cachedAt >= readAt[p]
                        /\ r \notin RowsOf(cacheAtStart[p], KeyOf(args[p]))
                  /\ Cardinality(RowsWithKey(tokenAddressCache, KeyOf(args[p]))) = 1

\* a stale entry was replaced by a different address the registry now gives
C8_Witness ==
    \E p \in Procs :
        /\ Done(p)
        /\ IsLookup(p)
        /\ StaleAtStart(p)
        /\ result[p].kind = "FoundToken"
        /\ \A r \in RowsOf(cacheAtStart[p], KeyOf(args[p])) : r.address # result[p].address
        /\ \E r \in RowsOf(tokenAddressCache, KeyOf(args[p])) : r.address = result[p].address

-----------------------------------------------------------------------------
(* C9 *)

\* how many entries of the fetched list carry the symbol p asked for
ListedWithSymbol(p) ==
    Cardinality({i \in 1..Len(registry[p].items) :
                    SameLetters(registry[p].items[i].symbol, StripDollar(args[p].lookup))})

\* C9: the cache changes only in the step in which a lookup that resolved exactly
\* one address from a registry returns Found-Token; every other step (every step of a
\* verify call, a Found-Native, a cache hit, an Ambiguous, a NotFound) leaves it as it is.
C9_OnlySingleResolutionWrites ==
    [][tokenAddressCache' # tokenAddressCache =>
          \E p \in Procs :
              /\ pc[p] = "writeCache"
              /\ IsLookup(p)
              /\ requests[p] # <<>>
              /\ IF SameLetters(args[p].chain, SOLANA)
                 THEN ListedWithSymbol(p) = 1
                 ELSE Len(resolvedMatches[p]) = 1
              /\ pc'[p] = "idle"
              /\ result'[p].kind = "FoundToken"
              /\ \E r \in RowsOf(tokenAddressCache', KeyOf(args[p])) :
                    r.address = result'[p].address /\ r.cachedAt = now]_vars

\* a lookup has written the cache, and a later verify call has returned without a write
C9_Witness ==
    \E p \in Procs :
        /\ Done(p)
        /\ IsVerify(p)
        /\ requests[p] # <<>>
        /\ Len(tokenAddressCache) > 0
        /\ tokenAddressCache = cacheAtStart[p]

-----------------------------------------------------------------------------
(* C10 *)

\* C10: every lookup and verify call returns one of the defined outcomes; none raises
\* an error to its caller, whatever the registry answers.
C10_NeverThrows ==
    \A p \in Procs :
        Done(p) => result[p].kind \in {"FoundNative", "FoundToken", "Ambiguous", "NotFound",
                                        "Verified", "Unverified", "Error"}

-----------------------------------------------------------------------------
(* C11 *)

\* the keys the table holds
KeysOf(table) == {table[i].cacheKey : i \in 1..Len(table)}

OneRowPerKey(table) == \A k \in KeysOf(table) : Cardinality(RowsWithKey(table, k)) = 1

\* C11: the cache holds at most one entry per key in every state, also while several
\* lookups of the same key are in flight; every write leaves, for its key, exactly the
\* entry it wrote (address of the writer's token, cachedAt the time of the write), so
\* after concurrent writes the entry is that of the write that completed last.
C11_OneEntryPerKeyLastWriterWins ==
    [][/\ OneRowPerKey(tokenAddressCache)
       /\ OneRowPerKey(tokenAddressCache')
       /\ \A p \in Procs :
             (pc[p] = "writeCache" /\ pc'[p] = "idle" /\ result'[p].kind = "FoundToken") =>
                 RowsOf(tokenAddressCache', KeyOf(args[p])) =
                     { Row(KeyOf(args[p]), result'[p].address, result'[p].name,
                           result'[p].chain, FALSE, now) }]_vars

\* two lookups of one key both missed the empty cache, fetched different listings and
\* both wrote: one row is left, and it is the row of the later write
C11_Witness ==
    \E p, q \in Procs :
        /\ p # q
        /\ Done(p) /\ Done(q)
        /\ result[p].kind = "FoundToken" /\ result[q].kind = "FoundToken"
        /\ requests[p] # <<>> /\ requests[q] # <<>>
        /\ cacheAtStart[p] = <<>> /\ cacheAtStart[q] = <<>>
        /\ KeyOf(args[p]) = KeyOf(args[q])
        /\ result[p].address # result[q].address
        /\ Len(tokenAddressCache) = 1
        /\ tokenAddressCache[1].address = result[q].address
        /\ resolved[KeyOf(args[q])].result = result[q]

-----------------------------------------------------------------------------
(* C12 *)

\* p's call is a Solana lookup that missed the cache and got a list from the registry
SolanaMissListed(p) ==
    /\ Done(p) /\ IsLookup(p)
    /\ SameLetters(args[p].chain, SOLANA)
    /\ requests[p] = <<"jupiter:strict">>
    /\ cached[p] = Null
    /\ ListedOk(p)

\* the entries of the fetched list whose symbol is the one asked, case-insensitively
ListedEntries(p) ==
    {i \in 1..Len(registry[p].items) :
        SameLetters(registry[p].items[i].symbol, StripDollar(args[p].lookup))}

\* C12: a Solana lookup that misses the cache and reaches the registry returns NotFound
\* when no list entry has the symbol, and when exactly one has it returns Found-Token
\* with that entry's address, the address being in the cache under "solana:SYMBOL".
C12_SolanaZeroOrOneMatch ==
    \A p \in Procs :
        SolanaMissListed(p) =>
            /\ ListedEntries(p) = {} => result[p].kind = "NotFound"
            /\ \A i \in ListedEntries(p) :
                  ListedEntries(p) = {i} =>
                      /\ result[p].kind = "FoundToken"
                      /\ result[p].address = registry[p].items[i].address
                      /\ \E r \in RowsOf(tokenAddressCache,
                                         SOLANA \o <<":">> \o ToUpperCase(StripDollar(args[p].lookup))) :
                            r.address = registry[p].items[i].address

-----------------------------------------------------------------------------
(* C13 *)

\* p's call is an Ethereum lookup that has gone through phase B
EvmPhaseBDone(p) ==
    /\ Done(p) /\ IsLookup(p)
    /\ SameLetters(args[p].chain, ETHEREUM)
    /\ Len(requests[p]) > 1

\* the candidates of phase A: the coins of the fetched list with the symbol asked, in
\* list order, the first five at most
Candidates(p) ==
    LET HasSymbol(c) == SameLetters(c.symbol, StripDollar(args[p].lookup))
        all == SelectSeq(registry[p].items, HasSymbol)
    IN  SubSeq(all, 1, IF Len(all) < 5 THEN Len(all) ELSE 5)

\* the positions of the candidates that are not skipped: the detail request delivered
\* the coin and the coin has an Ethereum platform address
ResolvedPositions(p) ==
    LET NotSkipped(i) == details[p][i] /\ Candidates(p)[i].ethereum # Undefined
    IN  SelectSeq([i \in 1..Len(Candidates(p)) |-> i], NotSkipped)

ResolvedAddresses(p) ==
    [k \in 1..Len(ResolvedPositions(p)) |-> Candidates(p)[ResolvedPositions(p)[k]].ethereum]

\* C13: phase B requests the detail of every candidate in coin-list order, a failed
\* or address-less candidate is skipped and the loop goes on; zero resolved addresses
\* give NotFound, one gives Found-Token with that address written to the cache, more
\* than one give Ambiguous with these addresses and an unchanged cache.
C13_PhaseBDecidesByResolvedCount ==
    \A p \in Procs :
        EvmPhaseBDone(p) =>
            /\ requests[p] = <<"coingecko:list">> \o
                                [i \in 1..Len(Candidates(p)) |-> Candidates(p)[i].id]
            /\ Len(ResolvedAddresses(p)) = 0 =>
                  result[p].kind = "NotFound" /\ tokenAddressCache = cacheAtStart[p]
            /\ Len(ResolvedAddresses(p)) = 1 =>
                  /\ result[p].kind = "FoundToken"
                  /\ result[p].address = ResolvedAddresses(p)[1]
                  /\ \E r \in RowsOf(tokenAddressCache, KeyOf(args[p])) :
                        r.address = ResolvedAddresses(p)[1]
            /\ Len(ResolvedAddresses(p)) > 1 =>
                  /\ result[p].kind = "Ambiguous"
                  /\ [i \in 1..Len(result[p].matches) |-> result[p].matches[i].address]
                        = ResolvedAddresses(p)
                  /\ tokenAddressCache = cacheAtStart[p]

-----------------------------------------------------------------------------
(* C14 *)

\* the detail requests p's call has made so far: the coin ids, in the order requested
DetailRequests(p) == Tail(requests[p])

\* C14: at every moment of an Ethereum lookup the detail requests made so far are at
\* most five, and they are the ids of the first matching coins of the list, in list
\* order; a finished phase B has requested exactly the first five (or all, if fewer).
C14_AtMostFiveDetailRequests ==
    \A p \in Procs :
        (IsLookup(p) /\ requests[p] # <<>> /\ requests[p][1] = "coingecko:list") =>
            /\ Len(DetailRequests(p)) <= 5
            /\ Len(DetailRequests(p)) <= Len(Candidates(p))
            /\ \A i \in 1..Len(DetailRequests(p)) : DetailRequests(p)[i] = Candidates(p)[i].id
            /\ (Done(p) /\ ListedOk(p) /\ result[p].kind # "Threw") =>
                  Len(DetailRequests(p)) = Len(Candidates(p))

\* a lookup against a list with six coins of the symbol has finished after five requests
C14_Witness ==
    \E p \in Procs :
        /\ Done(p) /\ IsLookup(p) /\ ListedOk(p)
        /\ Len(registry[p].items) = 6
        /\ \A i \in 1..6 : SameLetters(registry[p].items[i].symbol, StripDollar(args[p].lookup))
        /\ Len(DetailRequests(p)) = 5

-----------------------------------------------------------------------------
(* C15 *)

\* p's call is a lookup on bitcoin or sui
LookupOnBitcoinOrSui(p) ==
    /\ Done(p) /\ IsLookup(p)
    /\ SameLetters(args[p].chain, BITCOIN) \/ SameLetters(args[p].chain, SUI)

UnsupportedChainOutcome(p) ==
    /\ result[p].kind = "NotFound"
    /\ result[p].reason = UnsupportedChainText(args[p].chain)
    /\ requests[p] = <<>>

\* C15 as stated: every lookup on bitcoin or sui, for any symbol, returns NotFound
\* with the unsupported-chain reason and makes no registry request.
C15_BitcoinSuiAlwaysNotFound ==
    \A p \in Procs : LookupOnBitcoinOrSui(p) => UnsupportedChainOutcome(p)

\* C15 amended: a lookup on bitcoin or sui of any symbol other than the chain's own
\* native symbol (BTC on bitcoin, SUI on sui) returns NotFound with the
\* unsupported-chain reason and makes no registry request; the native symbol of the
\* chain returns Found-Native, also without a registry request.
C15_BitcoinSuiNotFoundUnlessNative ==
    \A p \in Procs :
        LookupOnBitcoinOrSui(p) =>
            /\ requests[p] = <<>>
            /\ IF AsksNative(args[p])
               THEN result[p].kind = "FoundNative"
               ELSE UnsupportedChainOutcome(p)

\* a lookup on bitcoin or sui of the native symbol of another chain has returned NotFound
C15_Witness ==
    \E p \in Procs :
        /\ LookupOnBitcoinOrSui(p)
        /\ ~AsksNative(args[p])
        /\ SameLetters(args[p].lookup, ETH)
        /\ result[p].kind = "NotFound"

-----------------------------------------------------------------------------
(* C16 *)

KnownChains == {SOLANA, ETHEREUM, BITCOIN, SUI}

\* p's call is a lookup on a chain that is none of the four, in any letter case
LookupOnUnknownChain(p) ==
    /\ Done(p) /\ IsLookup(p)
    /\ \A c \in KnownChains : ~SameLetters(args[p].chain, c)

\* C16: a lookup on a chain that is none of solana, ethereum, bitcoin, sui returns
\* NotFound with the reason that names the chain as unsupported, for every symbol; it
\* makes no registry request, leaves the cache as it was and does not raise.
C16_UnknownChainNotFound ==
    \A p \in Procs :
        LookupOnUnknownChain(p) =>
            /\ result[p].kind = "NotFound"
            /\ result[p].reason = UnsupportedChainText(args[p].chain)
            /\ requests[p] = <<>>
            /\ tokenAddressCache = cacheAtStart[p]

\* a lookup of a native symbol on an unknown chain has returned, with a cache that
\* already holds an entry
C16_Witness ==
    \E p \in Procs :
        /\ LookupOnUnknownChain(p)
        /\ SameLetters(args[p].lookup, SOL)
        /\ Len(tokenAddressCache) > 0
        /\ result[p].kind = "NotFound"

-----------------------------------------------------------------------------
(* C17 *)

\* p's call is a verify on Solana
VerifyOnSolana(p) == Done(p) /\ IsVerify(p) /\ SameLetters(args[p].chain, SOLANA)

\* C17: a verify on Solana of an address shorter than 32 or longer than 44 characters
\* returns Unverified with the length warning and makes no request; an address of 32
\* to 44 characters, both ends included, is looked for in the registry.
C17_LengthCheckBeforeRegistry ==
    \A p \in Procs :
        VerifyOnSolana(p) =>
            IF Len(args[p].verify) < 32 \/ Len(args[p].verify) > 44
            THEN /\ result[p] = Unverified(WarnLength)
                 /\ requests[p] = <<>>
            ELSE /\ requests[p] = <<"jupiter:strict">>
                 /\ result[p] # Unverified(WarnLength)

\* an address of 31 characters, one short of the range, has been turned away with the
\* length warning and without a request
C17_Witness ==
    \E p \in Procs :
        /\ VerifyOnSolana(p)
        /\ Len(args[p].verify) = 31
        /\ requests[p] = <<>>
        /\ result[p] = Unverified(WarnLength)

-----------------------------------------------------------------------------
(* C18 *)

\* the entries of the list p's call fetched whose address is the one to verify,
\* letter case aside
ListedWithAddress(p) ==
    {i \in 1..Len(registry[p].items) :
        SameLetters(registry[p].items[i].address, args[p].verify)}

\* C18: a verify on Solana returns Verified exactly when the address has 32 to 44
\* characters, the list was fetched (2xx, a JSON array) and an entry of the list has
\* that address, letter case aside; Verified carries the name and symbol of such an
\* entry; every other verify on Solana returns Unverified.
C18_VerifiedIffListed ==
    \A p \in Procs :
        VerifyOnSolana(p) =>
            /\ result[p].kind \in {"Verified", "Unverified"}
            /\ result[p].kind = "Verified" <=>
                  /\ Len(args[p].verify) >= 32 /\ Len(args[p].verify) <= 44
                  /\ ListedOk(p)
                  /\ ListedWithAddress(p) # {}
            /\ result[p].kind = "Verified" =>
                  \E i \in ListedWithAddress(p) :
                      /\ result[p].name = registry[p].items[i].name
                      /\ result[p].symbol = registry[p].items[i].symbol

-----------------------------------------------------------------------------
(* C19 *)

\* p's call is a verify on Ethereum
VerifyOnEthereum(p) == Done(p) /\ IsVerify(p) /\ SameLetters(args[p].chain, ETHEREUM)

\* "0x" followed by exactly 40 hexadecimal characters
IsHex40(address) ==
    /\ Len(address) = 42
    /\ SubSeq(address, 1, 2) = <<"0","x">>
    /\ \A i \in 3..42 :
          address[i] \in {"0","1","2","3","4","5","6","7","8","9"}
                         \cup {"a","b","c","d","e","f"} \cup {"A","B","C","D","E","F"}

\* C19: a verify on Ethereum never returns Verified and makes no registry request: an
\* address that is not 0x and 40 hex characters gets the invalid-format warning, a
\* well-formed one the valid-format-but-not-cross-referenced warning.
C19_EthereumVerifyIsFormatOnly ==
    \A p \in Procs :
        VerifyOnEthereum(p) =>
            /\ requests[p] = <<>>
            /\ result[p] = IF IsHex40(args[p].verify)
                           THEN Unverified(WarnEvmNoCrossRef)
                           ELSE Unverified(WarnEvmInvalid)

\* an address that CoinGecko lists, well-formed but one character too long, has been
\* given the invalid-format warning
C19_Witness ==
    \E p \in Procs :
        /\ VerifyOnEthereum(p)
        /\ Len(args[p].verify) = 43
        /\ SubSeq(args[p].verify, 1, 42) = UsdcAddrA
        /\ result[p] = Unverified(WarnEvmInvalid)

-----------------------------------------------------------------------------
(* C20 *)

\* p's call is a verify on bitcoin or sui
VerifyOnBitcoinOrSui(p) ==
    /\ Done(p) /\ IsVerify(p)
    /\ SameLetters(args[p].chain, BITCOIN) \/ SameLetters(args[p].chain, SUI)

\* C20: a verify on bitcoin or sui returns Unverified with the no-registry warning for
\* every address, makes no registry request, and neither reads nor writes the cache.
C20_BitcoinSuiVerifyUnverified ==
    \A p \in Procs :
        VerifyOnBitcoinOrSui(p) =>
            /\ result[p] = Unverified(WarnNoRegistry(args[p].chain))
            /\ requests[p] = <<>>
            /\ cached[p] = Null
            /\ tokenAddressCache = cacheAtStart[p]

\* an address the Solana registry lists has been verified on bitcoin, with an entry in
\* the cache, and came back Unverified
C20_Witness ==
    \E p \in Procs :
        /\ VerifyOnBitcoinOrSui(p)
        /\ args[p].verify = BonkMintA
        /\ Len(tokenAddressCache) > 0
        /\ result[p].kind = "Unverified"

-----------------------------------------------------------------------------
(* C21 *)

\* the list request of p's call was answered with a status outside 200..299
AnsweredNon2xx(p) ==
    /\ Done(p)
    /\ registry[p] # Null
    /\ registry[p].kind = "response"
    /\ ~Ok(registry[p])

\* the decimal digits of a status code 100..599
StatusDigits(n) ==
    LET d == <<"0","1","2","3","4","5","6","7","8","9">> IN
    <<d[(n \div 100) + 1], d[((n \div 10) % 10) + 1], d[(n % 10) + 1]>>

\* C21: when the registry answers a call's list request with a non-2xx status, the
\* call's outcome is NotFound (lookup) or Unverified (verify) and its text carries
\* the status code.
C21_StatusCodeInFailureText ==
    \A p \in Procs :
        AnsweredNon2xx(p) =>
            IF IsLookup(p)
            THEN /\ result[p].kind = "NotFound"
                 /\ result[p].reason.arg = StatusDigits(registry[p].status)
            ELSE /\ result[p].kind = "Unverified"
                 /\ result[p].warning.arg = StatusDigits(registry[p].status)

-----------------------------------------------------------------------------
(* C22 *)

\* the list request of p's call failed: no answer, a non-2xx status, or no JSON body
ListRequestFailed(p) ==
    /\ registry[p] # Null
    /\ \/ registry[p].kind = "reject"
       \/ ~Ok(registry[p])
       \/ ~registry[p].json

\* C22: at every moment of a call no registry endpoint has been requested twice by it,
\* and a call whose list request failed has returned NotFound or Unverified with that
\* one request made.
C22_NoRetries ==
    \A p \in Procs :
        /\ \A i, j \in 1..Len(requests[p]) : requests[p][i] = requests[p][j] => i = j
        /\ ListRequestFailed(p) =>
              /\ Done(p)
              /\ Len(requests[p]) = 1
              /\ result[p].kind = IF IsLookup(p) THEN "NotFound" ELSE "Unverified"

\* an Ethereum lookup whose list request timed out has returned NotFound after it
C22_Witness ==
    \E p \in Procs :
        /\ Done(p) /\ IsLookup(p)
        /\ registry[p] # Null /\ registry[p].kind = "reject"
        /\ requests[p] = <<"coingecko:list">>
        /\ result[p].kind = "NotFound"

-----------------------------------------------------------------------------
(* C23 *)

\* the row agrees with the written value in address, name, chain and isNative
SameValue(row, v) ==
    /\ row.address = v.address
    /\ row.name = v.name
    /\ row.chain = v.chain
    /\ row.isNative = v.isNative

\* C23: for every key, a read of the key made within 24 hours of the last write
\* under it is a hit, and the entry read equals the written value in address, name,
\* chain and isNative: so for the read a caller makes in a step, and for a read that
\* would be made in any state.
C23_CacheRoundTrip ==
    [][/\ \A k \in DOMAIN resolved :
             now - resolved[k].at <= 24 * 60 * 60 * 1000 =>
                 LET e == GetCacheEntry(tokenAddressCache, k, now) IN
                 e.kind = "entry" /\ SameValue(e.entry, resolved[k].result)
       /\ \A p \in Procs :
             (/\ <<args'[p], cached'[p], readAt'[p]>> # <<args[p], cached[p], readAt[p]>>
              /\ tokenAddressCache' = tokenAddressCache
              /\ args'[p].lookup \in DOMAIN resolved
              /\ now - resolved[args'[p].lookup].at <= 24 * 60 * 60 * 1000) =>
                 /\ cached'[p].kind = "entry"
                 /\ SameValue(cached'[p].entry, resolved[args'[p].lookup].result)]_vars

\* a native entry was written over an earlier one of the key, another key was written
\* after it, and a read made exactly 24 hours after the write was a hit
C23_Witness ==
    \E p \in Procs :
        /\ args[p].lookup \in DOMAIN resolved
        /\ Len(tokenAddressCache) = 2
        /\ tokenAddressCache[1].cacheKey = args[p].lookup
        /\ cached[p].kind = "entry"
        /\ cached[p].entry.isNative
        /\ readAt[p] - cached[p].entry.cachedAt = 24 * 60 * 60 * 1000

-----------------------------------------------------------------------------
(* C24 *)

\* C24: every Ambiguous outcome lists at least two addresses and no address twice, so
\* entries of the registry that share symbol and address do not make a result Ambiguous.
C24_AmbiguousAddressesDistinct ==
    \A p \in Procs :
        (Done(p) /\ result[p].kind = "Ambiguous") =>
            /\ Len(result[p].matches) >= 2
            /\ \A i, j \in 1..Len(result[p].matches) :
                  result[p].matches[i].address = result[p].matches[j].address => i = j

-----------------------------------------------------------------------------
(* C25 *)

\* the three spellings of a symbol s: with "$" in front, in lower case, in upper case
Spellings(s) == { <<"$">> \o s, ToLowerCase(s), ToUpperCase(s) }

\* what the first part of lookup gives for spelling v in the cache state and at the
\* time p's call met, and what the registry part gives on the response p's call got
StartOf(p, v) == LookupStart(cacheAtStart[p], readAt[p], v, args[p].chain)
ListOutcomeOf(p, v) ==
    IF SameLetters(args[p].chain, SOLANA)
    THEN SolanaOutcome(registry[p], NormaliseSymbol(v))
    ELSE EvmListOutcome(registry[p], NormaliseSymbol(v))

\* p's finished lookup used one spelling of s, and the other spellings of s give the
\* same key "chain:S" and the same outcome in the same cache and registry state
SpellingsAgree(p, s) ==
    (Done(p) /\ IsLookup(p) /\ args[p].lookup \in Spellings(s)) =>
        \A v \in Spellings(s) :
            /\ CacheKey(NormaliseChain(args[p].chain), NormaliseSymbol(v))
                  = ToLowerCase(args[p].chain) \o <<":">> \o ToUpperCase(s)
            /\ KeyOf(args[p]) = ToLowerCase(args[p].chain) \o <<":">> \o ToUpperCase(s)
            /\ IF requests[p] = <<>>
               THEN StartOf(p, v).next = "return" /\ StartOf(p, v).result = result[p]
               ELSE /\ StartOf(p, v).next # "return"
                    /\ ListOutcomeOf(p, v) = ListOutcomeOf(p, args[p].lookup)

\* symbols as callers write them, and one that itself begins with "$"
PlainSymbols == { <<"b","o","n","k">>, <<"S","o","l">>, <<"B","t","c">>,
                  <<"u","s","d","c">>, <<"e","t","h">> }
DollarSymbol == <<"$","S","O","L">>

\* C25 as stated: for every symbol s and chain, the lookups of "$" + s, of s in lower
\* case and of s in upper case use the same key "chain:S" and give the same outcome
\* in the same cache and registry state.
C25_SpellingsAgreeForEverySymbol ==
    \A p \in Procs : \A s \in PlainSymbols \cup {DollarSymbol} : SpellingsAgree(p, s)

\* C25 amended: the same, for every symbol s that does not itself begin with "$".
C25_SpellingsAgreeWithoutDollar ==
    \A p \in Procs : \A s \in PlainSymbols : SpellingsAgree(p, s)

\* "$bonk" was looked up on "Solana" and answered from the entry that a lookup of
\* "BONK" on "solana" had written
C25_Witness ==
    \E p \in Procs :
        /\ Done(p) /\ IsLookup(p)
        /\ args[p].lookup = <<"$","b","o","n","k">>
        /\ cached[p].kind = "entry"
        /\ cached[p].entry.cacheKey = SOLANA \o <<":">> \o BONK
        /\ result[p].kind = "FoundToken"

-----------------------------------------------------------------------------
(* C26 *)

\* the rows of a table, as a set
Rows(table) == {table[i] : i \in 1..Len(table)}

\* in this step p's lookup begins: the handler runs up to its first registry request
LookupBegins(p) ==
    /\ pc[p] = "idle"
    /\ <<args'[p], pc'[p], result'[p], readAt'[p]>> # <<args[p], pc[p], result[p], readAt[p]>>
    /\ args'[p].lookup # Undefined

\* C26: a step that is not a cache write leaves the table as it is; a lookup that reads
\* an entry older than 24 hours takes it for a miss and goes on to the registry with the
\* entry still in the table; a row leaves the table only in a write for its own key.
C26_ReadLeavesExpiredEntry ==
    [][/\ tokenAddressCache' # tokenAddressCache => \E p \in Procs : pc[p] = "writeCache"
       /\ \A p \in Procs :
             LookupBegins(p) =>
                 \A r \in RowsOf(tokenAddressCache, KeyOf(args'[p])) :
                     now - r.cachedAt > 24 * 60 * 60 * 1000 =>
                         /\ cached'[p] = Null
                         /\ pc'[p] \in {"fetchJupiter", "fetchCoinList"}
                         /\ r \in Rows(tokenAddressCache')
       /\ \A r \in Rows(tokenAddressCache) \ Rows(tokenAddressCache') :
             \E p \in Procs : pc[p] = "writeCache" /\ KeyOf(args[p]) = r.cacheKey]_vars

\* a lookup read an expired entry, the registry did not answer, and the call returned
\* NotFound with the expired entry still in the table
C26_Witness ==
    \E p \in Procs :
        /\ Done(p) /\ IsLookup(p)
        /\ StaleAtStart(p)
        /\ result[p].kind = "NotFound"
        /\ tokenAddressCache = cacheAtStart[p]
        /\ \E r \in RowsOf(tokenAddressCache, KeyOf(args[p])) :
              now - r.cachedAt > 24 * 60 * 60 * 1000

-----------------------------------------------------------------------------
(* C27 *)

\* C27: every lookup and verify call that is under way eventually returns (or raises):
\* no registry, answering or silent, keeps a caller waiting forever.
C27_EveryCallReturns ==
    \A p \in Procs : (pc[p] # "idle") ~> (pc[p] = "idle")

\* an Ethereum lookup has returned after its list request and five detail requests,
\* none of which delivered a coin
C27_Witness ==
    \E p \in Procs :
        /\ Done(p) /\ IsLookup(p)
        /\ Len(requests[p]) = 6
        /\ \A i \in 1..Len(details[p]) : ~details[p][i]
        /\ result[p].kind = "NotFound"

-----------------------------------------------------------------------------
(* C28 *)

\* the list request of p's call was answered 2xx with a body that did not parse as JSON
ParseFailed(p) ==
    /\ Done(p)
    /\ registry[p] # Null
    /\ registry[p].kind = "response"
    /\ Ok(registry[p])
    /\ ~registry[p].json

\* what p's call would have returned had the registry been unreachable
UnreachableOutcome(p) ==
    IF IsVerify(p) THEN VerifySolanaOutcome(Reject(TypeError), args[p].verify)
    ELSE IF SameLetters(args[p].chain, SOLANA)
    THEN SolanaOutcome(Reject(TypeError), NormaliseSymbol(args[p].lookup)).result
    ELSE EvmListOutcome(Reject(TypeError), NormaliseSymbol(args[p].lookup)).result

TemplateOf(res) == IF res.kind = "NotFound" THEN res.reason.template ELSE res.warning.template

\* C28: a call whose registry response failed to parse as JSON ends as a call whose
\* registry was unreachable: NotFound on lookup, Unverified on verify, with the text
\* of the unreachable case, after that one request and without a cache write.
C28_ParseFailureAsUnreachable ==
    \A p \in Procs :
        ParseFailed(p) =>
            /\ result[p].kind = IF IsLookup(p) THEN "NotFound" ELSE "Unverified"
            /\ result[p].kind = UnreachableOutcome(p).kind
            /\ TemplateOf(result[p]) = TemplateOf(UnreachableOutcome(p))
            /\ Len(requests[p]) = 1
            /\ tokenAddressCache = cacheAtStart[p]

\* a Solana lookup got a 200 response that was not JSON and returned NotFound
C28_Witness ==
    \E p \in Procs :
        /\ ParseFailed(p) /\ IsLookup(p)
        /\ SameLetters(args[p].chain, SOLANA)
        /\ result[p].kind = "NotFound"
        /\ result[p].reason.arg = SyntaxError

-----------------------------------------------------------------------------
(* C29 *)

\* the addresses of the rows of a table under a key
AddressesOf(table, cacheKey) == {r.address : r \in RowsOf(table, cacheKey)}

\* C29: a row enters the cache only in the write of a lookup, under the lookup's key,
\* and its address is one the registry of the lookup's chain listed for the symbol in
\* this call; a Found-Token result carries such an address, or the address of the row
\* the cache held for the key. So every address stored or returned as Found-Token came
\* from a registry, never from a caller's arguments.
C29_AddressesComeFromRegistry ==
    [][/\ \A r \in Rows(tokenAddressCache') \ Rows(tokenAddressCache) :
             \E p \in Procs :
                 /\ pc[p] = "writeCache" /\ pc'[p] = "idle"
                 /\ IsLookup(p) /\ ListedOk(p)
                 /\ r.cacheKey = KeyOf(args[p])
                 /\ r.chain = ToLowerCase(args[p].chain)
                 /\ r.address \in RegistryAddresses(p)
       /\ \A p \in Procs :
             (result'[p] # result[p] /\ result'[p].kind = "FoundToken") =>
                 IF pc[p] = "writeCache"
                 THEN ListedOk(p) /\ result'[p].address \in RegistryAddresses(p)
                 ELSE result'[p].address
                          \in AddressesOf(tokenAddressCache, KeyOf(args'[p]))]_vars

\* the cache holds a Solana and an Ethereum entry, each written by a lookup from its
\* registry, and a verify of a listed address has since returned without a write
C29_Witness ==
    \E p \in Procs :
        /\ Done(p) /\ IsVerify(p)
        /\ result[p].kind = "Verified"
        /\ Len(tokenAddressCache) = 2
        /\ tokenAddressCache = cacheAtStart[p]

-----------------------------------------------------------------------------
(* C30 *)

\* the key is the chain, a colon, and the upper-cased symbol of the token the registry
\* listed, as the lookup that wrote the row returned it
KeyOfRow(r) ==
    /\ r.cacheKey \in DOMAIN resolved
    /\ r.cacheKey = r.chain \o <<":">> \o ToUpperCase(resolved[r.cacheKey].result.symbol)

\* the call of p returned from the row the cache held for its key
CacheHit(p) == Done(p) /\ IsLookup(p) /\ cached[p] # Null

\* C30: every cache entry has isNative = false, chain solana or ethereum, and the key
\* chain:SYMBOL; and no lookup returns Found-Native from a cache hit: a cache hit is
\* Found-Token, and Found-Native comes only from the native fast path, which reads no
\* cache and asks no registry.
C30_EntriesAreTokens ==
    /\ \A r \in Rows(tokenAddressCache) :
          /\ r.isNative = FALSE
          /\ r.chain \in {SOLANA, ETHEREUM}
          /\ KeyOfRow(r)
    /\ \A p \in Procs :
          /\ CacheHit(p) => result[p].kind = "FoundToken"
          /\ (Done(p) /\ IsLookup(p) /\ result[p].kind = "FoundNative") =>
                 /\ cached[p] = Null
                 /\ AsksNative(args[p])
                 /\ requests[p] = <<>>

\* a lookup answered from the cache, after lookups have written an entry for each chain
C30_Witness ==
    \E p \in Procs :
        /\ CacheHit(p)
        /\ result[p].kind = "FoundToken"
        /\ Len(tokenAddressCache) = 2

-----------------------------------------------------------------------------
(* The Convex backend beside the resolver: phantomSessions (auth), the chat mutations,
   pendingApprovals and the /phantom-approval webhook. A Convex mutation is one
   transaction: it runs to its end on one snapshot or leaves no trace, and concurrent
   mutations are serialised, so each mutation is one action and a race of two calls is
   the two orders of their actions. *)

\* how many threads, messages and approvals a behaviour creates
MaxThreads == 1
MaxMessages == 1
MaxApprovals == 1

Users == {"u1", "u2"}
\* the token the service worker registers for every user (background.ts:214)
STAMPER_AUTH == "stamper-auth"
SessionTokens == {"tokA", STAMPER_AUTH}

WalletOf(userId) == IF userId = "u1" THEN "wallet1" ELSE "wallet2"
OrganizationOf(userId) == IF userId = "u1" THEN "org1" ELSE "org2"
StamperKeyOf(userId) == IF userId = "u1" THEN "key1" ELSE "key2"

\* a row of phantomSessions (createdAt is never read and left out)
SessionRow(userId, walletId, organizationId, sessionToken, stamperSecretKey) ==
    [userId |-> userId, walletId |-> walletId, organizationId |-> organizationId,
     sessionToken |-> sessionToken, stamperSecretKey |-> stamperSecretKey]

\* .withIndex(index, q => q.eq(field, value)): the _ids of the rows found
IdsWith(table, field, value) == {i \in DOMAIN table : table[i][field] = value}

\* .unique(): null for no row, the row for one, an exception for more than one
UniqueDoc(table, field, value) ==
    LET ids == IdsWith(table, field, value)
    IN  IF ids = {} THEN Null
        ELSE IF Cardinality(ids) = 1
        THEN [kind |-> "doc", id |-> CHOOSE i \in ids : TRUE]
        ELSE Threw(<<"E","r","r","o","r">>)

\* getSessionByToken: PhantomSessionData, null, or the exception of .unique()
GetSessionByToken(table, sessionToken) ==
    LET session == UniqueDoc(table, "sessionToken", sessionToken)
    IN  IF session.kind # "doc" THEN session
        ELSE [kind |-> "session",
              userId |-> table[session.id].userId,
              walletId |-> table[session.id].walletId,
              organizationId |-> table[session.id].organizationId,
              stamperSecretKey |-> table[session.id].stamperSecretKey]

\* a called function and how it ended: "returned" or "threw", or the HTTP status
Called(fn, a, outcome) == lastCall' = [fn |-> fn, args |-> a, outcome |-> outcome]

\* the function threw: the transaction is rolled back
Aborted(fn, a) ==
    /\ Called(fn, a, "threw")
    /\ UNCHANGED backendVars

\* getCurrentSession (query)
GetCurrentSession(sessionToken) ==
    /\ LET session == UniqueDoc(phantomSessions, "sessionToken", sessionToken)
       IN  Called("getCurrentSession", [sessionToken |-> sessionToken],
                  IF session.kind = "Threw" THEN "threw" ELSE "returned")
    /\ UNCHANGED <<resolverVars, backendVars, toolRuns, workerVars, authVars>>

\* registerSession: delete the row of the user, if there is one, and insert the new row
RegisterSession(userId, sessionToken) ==
    /\ LET a == [userId |-> userId, sessionToken |-> sessionToken]
           existing == UniqueDoc(phantomSessions, "userId", userId)
       IN  IF existing.kind = "Threw"
           THEN Aborted("registerSession", a)
           ELSE /\ phantomSessions' =
                       Append(IF existing.kind = "doc"
                              THEN DeleteAt(phantomSessions, existing.id)
                              ELSE phantomSessions,
                              SessionRow(userId, WalletOf(userId), OrganizationOf(userId),
                                         sessionToken, StamperKeyOf(userId)))
                /\ Called("registerSession", a, "returned")
                /\ UNCHANGED <<webhookSecret, pendingApprovals, agentThreads,
                               savedMessages, scheduled>>
    /\ UNCHANGED <<resolverVars, toolRuns, workerVars, authVars>>

\* revokeSession: delete the row with the token, if there is one
RevokeSession(sessionToken) ==
    /\ LET a == [sessionToken |-> sessionToken]
           session == UniqueDoc(phantomSessions, "sessionToken", sessionToken)
       IN  IF session.kind = "Threw"
           THEN Aborted("revokeSession", a)
           ELSE /\ phantomSessions' = IF session.kind = "doc"
                                      THEN DeleteAt(phantomSessions, session.id)
                                      ELSE phantomSessions
                /\ Called("revokeSession", a, "returned")
                /\ UNCHANGED <<webhookSecret, pendingApprovals, agentThreads,
                               savedMessages, scheduled>>
    /\ UNCHANGED <<resolverVars, toolRuns, workerVars, authVars>>

\* createNewThread
CreateNewThread(sessionToken) ==
    /\ LET a == [sessionToken |-> sessionToken]
           session == GetSessionByToken(phantomSessions, sessionToken)
       IN  IF session.kind # "session"
           THEN Aborted("createNewThread", a)
           ELSE /\ Len(agentThreads) < MaxThreads
                /\ agentThreads' = Append(agentThreads, [title |-> "Phantom Agent"])
                /\ Called("createNewThread", a, "returned")
                /\ UNCHANGED <<webhookSecret, phantomSessions, pendingApprovals,
                               savedMessages, scheduled>>
    /\ UNCHANGED <<resolverVars, toolRuns, workerVars, authVars>>

\* a scheduled function and its arguments
Job(fn, a) == [fn |-> fn, args |-> a]

\* sendMessage: the message is saved and generateResponseAsync scheduled with the
\* credentials of the session
SendMessage(threadId, prompt, sessionToken) ==
    /\ threadId \in DOMAIN agentThreads
    /\ LET a == [threadId |-> threadId, prompt |-> prompt, sessionToken |-> sessionToken]
           session == GetSessionByToken(phantomSessions, sessionToken)
       IN  IF session.kind # "session"
           THEN Aborted("sendMessage", a)
           ELSE /\ Len(savedMessages) < MaxMessages
                /\ savedMessages' = Append(savedMessages,
                                           [threadId |-> threadId, prompt |-> prompt])
                /\ scheduled' =
                       Append(scheduled,
                              Job("chat.generateResponseAsync",
                                  [threadId |-> threadId,
                                   promptMessageId |-> Len(savedMessages) + 1,
                                   sessionToken |-> sessionToken,
                                   walletId |-> session.walletId,
                                   organizationId |-> session.organizationId,
                                   stamperSecretKey |-> session.stamperSecretKey]))
                /\ Called("sendMessage", a, "returned")
                /\ UNCHANGED <<webhookSecret, phantomSessions, pendingApprovals,
                               agentThreads>>
    /\ UNCHANGED <<resolverVars, toolRuns, workerVars, authVars>>

\* createPendingApproval: the tables after the insert and the runAfter
CreatePendingApproval(table, jobs, threadId, approvalPayload) ==
    [pendingApprovals |->
         Append(table, [threadId |-> threadId, approvalPayload |-> approvalPayload,
                        status |-> "pending"]),
     scheduled |->
         Append(jobs, Job("approvals.summariseApproval",
                          [approvalId |-> Len(table) + 1, threadId |-> threadId,
                           approvalPayload |-> approvalPayload]))]

\* mutant of ResolveApproval: the status of the approval is not looked at
ResolveApprovalAnyStatus(approvalId, decision, sessionToken) ==
    /\ LET a == [approvalId |-> approvalId, decision |-> decision,
                 sessionToken |-> sessionToken]
       IN  IF approvalId \notin DOMAIN pendingApprovals
           THEN Aborted("resolveApproval", a)
           ELSE /\ pendingApprovals' =
                       [pendingApprovals EXCEPT ![approvalId].status = decision]
                /\ Len(scheduled) < 4
                /\ scheduled' =
                       Append(scheduled,
                              Job("phantom.resolveApproval",
                                  [approvalId |-> approvalId, decision |-> decision,
                                   sessionToken |-> sessionToken]))
                /\ Called("resolveApproval", a, "returned")
                /\ UNCHANGED <<webhookSecret, phantomSessions, agentThreads,
                               savedMessages>>
    /\ UNCHANGED <<resolverVars, toolRuns, workerVars, authVars>>

\* resolveApproval: ctx.db.get, the two throws, the patch and the runAfter
ResolveApproval(approvalId, decision, sessionToken) ==
    /\ LET a == [approvalId |-> approvalId, decision |-> decision,
                 sessionToken |-> sessionToken]
       IN  IF approvalId \notin DOMAIN pendingApprovals
           THEN Aborted("resolveApproval", a)
           ELSE IF pendingApprovals[approvalId].status # "pending"
           THEN Aborted("resolveApproval", a)
           ELSE /\ pendingApprovals' =
                       [pendingApprovals EXCEPT ![approvalId].status = decision]
                /\ scheduled' =
                       Append(scheduled,
                              Job("phantom.resolveApproval",
                                  [approvalId |-> approvalId, decision |-> decision,
                                   sessionToken |-> sessionToken]))
                /\ Called("resolveApproval", a, "returned")
                /\ UNCHANGED <<webhookSecret, phantomSessions, agentThreads,
                               savedMessages>>
    /\ UNCHANGED <<resolverVars, toolRuns, workerVars, authVars>>

-----------------------------------------------------------------------------
(* POST /phantom-approval (http.ts) *)

\* `${x}` of a string or of undefined
TemplateString(x) == IF x = Undefined THEN <<"u","n","d","e","f","i","n","e","d">> ELSE x

\* `Bearer ${secret}`
Bearer(secret) == <<"B","e","a","r","e","r"," ">> \o TemplateString(secret)

\* request.headers.get("Authorization") of a request without the header
NoHeader == <<"null">>

WrongSecret == <<"g","u","e","s","s">>

\* the Authorization headers of the requests: none, the right and a wrong secret, the
\* secret without "Bearer ", and what the template gives for an unset or empty secret
AuthHeaders == {NoHeader, Bearer(WebhookSecret), Bearer(WrongSecret), WebhookSecret,
                Bearer(Undefined), Bearer(<<>>)}

\* a JSON value: its kind and its threadId member, if it is an object
JsonMember(type, value) == [type |-> type, value |-> value]
NoMember == JsonMember("undefined", "")
JsonBody(type, threadId) == [json |-> TRUE, type |-> type, threadId |-> threadId]
\* a body request.json() rejects
UnparsableBody == [json |-> FALSE, type |-> "none", threadId |-> NoMember]

WebhookBodies ==
    {UnparsableBody,
     JsonBody("null", NoMember), JsonBody("string", NoMember), JsonBody("array", NoMember),
     JsonBody("object", NoMember),
     JsonBody("object", JsonMember("number", "7")),
     JsonBody("object", JsonMember("string", "1"))}

\* typeof body
TypeOf(body) == IF body.type \in {"object", "array", "null"} THEN "object" ELSE body.type

\* the negation of the test at http.ts:44-49
HasStringThreadId(body) ==
    /\ TypeOf(body) = "object"
    /\ body.type # "null"
    /\ body.type = "object" /\ body.threadId.type # "undefined"
    /\ body.threadId.type = "string"

\* JSON.stringify(body)
JsonStringify(body) == [serialised |-> body]

\* !webhookSecret
Unset(secret) == secret = Undefined \/ secret = <<>>

\* mutant of PhantomApproval: the configured secret is not tested for being set
PhantomApprovalUnsetAccepted(authHeader, body) ==
    /\ LET a == [authHeader |-> authHeader, body |-> body]
       IN  IF authHeader # Bearer(webhookSecret)
           THEN /\ Called("POST /phantom-approval", a, "401")
                /\ UNCHANGED backendVars
           ELSE IF ~body.json \/ ~HasStringThreadId(body)
           THEN /\ Called("POST /phantom-approval", a, "400")
                /\ UNCHANGED backendVars
           ELSE /\ Len(pendingApprovals) < MaxApprovals
                /\ LET c == CreatePendingApproval(pendingApprovals, scheduled,
                                                  body.threadId.value, JsonStringify(body))
                   IN  /\ pendingApprovals' = c.pendingApprovals
                       /\ scheduled' = c.scheduled
                /\ Called("POST /phantom-approval", a, "202")
                /\ UNCHANGED <<webhookSecret, phantomSessions, agentThreads,
                               savedMessages>>
    /\ UNCHANGED <<resolverVars, toolRuns, workerVars, authVars>>

\* the handler of POST /phantom-approval
PhantomApproval(authHeader, body) ==
    /\ LET a == [authHeader |-> authHeader, body |-> body]
       IN  IF Unset(webhookSecret) \/ authHeader # Bearer(webhookSecret)
           THEN /\ Called("POST /phantom-approval", a, "401")
                /\ UNCHANGED backendVars
           ELSE IF ~body.json
           THEN /\ Called("POST /phantom-approval", a, "400")
                /\ UNCHANGED backendVars
           ELSE IF ~HasStringThreadId(body)
           THEN /\ Called("POST /phantom-approval", a, "400")
                /\ UNCHANGED backendVars
           ELSE /\ Len(pendingApprovals) < MaxApprovals
                /\ LET c == CreatePendingApproval(pendingApprovals, scheduled,
                                                  body.threadId.value, JsonStringify(body))
                   IN  /\ pendingApprovals' = c.pendingApprovals
                       /\ scheduled' = c.scheduled
                /\ Called("POST /phantom-approval", a, "202")
                /\ UNCHANGED <<webhookSecret, phantomSessions, agentThreads,
                               savedMessages>>
    /\ UNCHANGED <<resolverVars, toolRuns, workerVars, authVars>>

-----------------------------------------------------------------------------
(* The backend under every public call and webhook request *)

Prompts == {"send 1 SOL"}
Decisions == {"approved", "rejected"}

\* the deployment has the secret set, set to the empty string, or not set
InitBackend ==
    /\ now = 0
    /\ tokenAddressCache = <<>>
    /\ active = {}
    /\ pc = [p \in Procs |-> "idle"]
    /\ args = [p \in Procs |-> NoCall]
    /\ cached = [p \in Procs |-> Null]
    /\ readAt = [p \in Procs |-> 0]
    /\ cacheAtStart = [p \in Procs |-> <<>>]
    /\ registry = [p \in Procs |-> Null]
    /\ matches = [p \in Procs |-> <<>>]
    /\ resolvedMatches = [p \in Procs |-> <<>>]
    /\ detailIdx = [p \in Procs |-> 0]
    /\ requests = [p \in Procs |-> <<>>]
    /\ details = [p \in Procs |-> <<>>]
    /\ result = [p \in Procs |-> Null]
    /\ resolved = <<>>
    /\ thread = Null
    /\ webhookSecret \in {WebhookSecret, <<>>, Undefined}
    /\ phantomSessions = <<>>
    /\ pendingApprovals = <<>>
    /\ agentThreads = <<>>
    /\ savedMessages = <<>>
    /\ scheduled = <<>>
    /\ toolRuns = <<>>
    /\ lastCall = NoRequest
    /\ InitWorker

NextBackend ==
    \/ \E u \in Users, t \in SessionTokens : RegisterSession(u, t)
    \/ \E t \in SessionTokens : RevokeSession(t)
    \/ \E t \in SessionTokens : GetCurrentSession(t)
    \/ \E t \in SessionTokens : CreateNewThread(t)
    \/ \E th \in 1..MaxThreads, m \in Prompts, t \in SessionTokens : SendMessage(th, m, t)
    \/ \E i \in 1..(MaxApprovals + 1), d \in Decisions, t \in SessionTokens :
          ResolveApproval(i, d, t)
    \/ \E h \in AuthHeaders, b \in WebhookBodies : PhantomApproval(h, b)

SpecBackend == InitBackend /\ [][NextBackend]_vars

\* the approvals alone: the webhook and the decisions of the user
NextApprovals ==
    \/ \E i \in 1..(MaxApprovals + 1), d \in Decisions, t \in SessionTokens :
          ResolveApproval(i, d, t)
    \/ \E h \in AuthHeaders, b \in WebhookBodies : PhantomApproval(h, b)

SpecApprovals == InitBackend /\ [][NextApprovals]_vars

-----------------------------------------------------------------------------
(* C31 *)

\* the notifications to the MCP server scheduled for approval i
NotificationsOf(jobs, i) ==
    {k \in DOMAIN jobs : jobs[k].fn = "phantom.resolveApproval" /\ jobs[k].args.approvalId = i}

\* the step is a call of fn
CallOf(fn) == lastCall'.fn = fn

\* C31: the status of an approval changes only from pending to approved or rejected, and
\* only in a resolveApproval that returned with that decision; resolveApproval on a
\* missing or already decided approval throws and changes nothing; so an approval that
\* is pending has no notification scheduled and a decided one has exactly one, carrying
\* the decision recorded, whatever the order of two calls for the same approval.
C31_ApprovalDecidedOnce ==
    [][/\ \A i \in DOMAIN pendingApprovals :
             /\ i \in DOMAIN pendingApprovals'
             /\ pendingApprovals'[i].status # pendingApprovals[i].status =>
                    /\ pendingApprovals[i].status = "pending"
                    /\ pendingApprovals'[i].status \in {"approved", "rejected"}
                    /\ CallOf("resolveApproval")
                    /\ lastCall'.outcome = "returned"
                    /\ lastCall'.args.approvalId = i
                    /\ lastCall'.args.decision = pendingApprovals'[i].status
       /\ (/\ CallOf("resolveApproval")
           /\ \/ lastCall'.args.approvalId \notin DOMAIN pendingApprovals
              \/ pendingApprovals[lastCall'.args.approvalId].status # "pending") =>
              /\ lastCall'.outcome = "threw"
              /\ UNCHANGED <<pendingApprovals, scheduled>>
       /\ \A i \in DOMAIN pendingApprovals' :
             LET ns == NotificationsOf(scheduled', i)
             IN  IF pendingApprovals'[i].status = "pending"
                 THEN ns = {}
                 ELSE /\ Cardinality(ns) = 1
                      /\ \A k \in ns :
                            scheduled'[k].args.decision = pendingApprovals'[i].status]_vars

\* an approval was approved, and a later resolveApproval that rejects it has thrown
C31_Witness ==
    /\ Len(pendingApprovals) = 1
    /\ pendingApprovals[1].status = "approved"
    /\ lastCall.fn = "resolveApproval"
    /\ lastCall.args.approvalId = 1
    /\ lastCall.args.decision = "rejected"
    /\ lastCall.outcome = "threw"
    /\ Cardinality(NotificationsOf(scheduled, 1)) = 1

-----------------------------------------------------------------------------
(* C33 *)

\* the request carries "Bearer " and the secret the deployment has set
Authorised(request) ==
    /\ webhookSecret # Undefined
    /\ webhookSecret # <<>>
    /\ request.authHeader = <<"B","e","a","r","e","r"," ">> \o webhookSecret

\* the body is a JSON object with a string threadId
HasThreadId(request) ==
    /\ request.body.json
    /\ request.body.type = "object"
    /\ request.body.threadId.type = "string"

-----------------------------------------------------------------------------
(* C32 *)

\* no row of phantomSessions carries the token
NoSessionFor(sessionToken) ==
    \A i \in DOMAIN phantomSessions : phantomSessions[i].sessionToken # sessionToken

\* C32: a createNewThread, sendMessage or resolveApproval whose sessionToken matches no
\* row of phantomSessions throws and changes nothing: no thread, no message, nothing
\* scheduled, no approval status changed.
C32_NoChangeWithoutSession ==
    [][(/\ lastCall'.fn \in {"createNewThread", "sendMessage", "resolveApproval"}
        /\ NoSessionFor(lastCall'.args.sessionToken)) =>
           /\ lastCall'.outcome = "threw"
           /\ UNCHANGED <<agentThreads, savedMessages, scheduled, pendingApprovals>>]_vars

-----------------------------------------------------------------------------
(* C39 *)

\* the rows of a user
RowsOfUser(table, userId) == {i \in DOMAIN table : table[i].userId = userId}

\* the token resolves to no session in the table
ResolvesToNone(table, sessionToken) ==
    \A i \in DOMAIN table : table[i].sessionToken # sessionToken

\* C39: after every call phantomSessions has at most one row per userId, and a
\* registerSession of a user who had a row with another token leaves that earlier token
\* resolving to no session.
C39_OneRowPerUser ==
    [][/\ \A u \in Users : Cardinality(RowsOfUser(phantomSessions', u)) <= 1
       /\ (CallOf("registerSession") /\ lastCall'.outcome = "returned") =>
              \A i \in RowsOfUser(phantomSessions, lastCall'.args.userId) :
                  phantomSessions[i].sessionToken # lastCall'.args.sessionToken =>
                      ResolvesToNone(phantomSessions', phantomSessions[i].sessionToken)]_vars

\* C39, the part about rows per user alone
C39_AtMostOneRowPerUser ==
    \A u \in Users : Cardinality(RowsOfUser(phantomSessions, u)) <= 1

-----------------------------------------------------------------------------
(* C40 *)

\* the rows that carry a token
RowsOfToken(table, sessionToken) == {i \in DOMAIN table : table[i].sessionToken = sessionToken}

\* C40: phantomSessions has at most one row per sessionToken, and getCurrentSession,
\* revokeSession and the session check of createNewThread and sendMessage never fail on
\* duplicate rows.
C40_OneRowPerToken ==
    /\ \A t \in SessionTokens : Cardinality(RowsOfToken(phantomSessions, t)) <= 1
    /\ lastCall.fn \in {"getCurrentSession", "revokeSession"} => lastCall.outcome = "returned"

-----------------------------------------------------------------------------
(* The MCP host (apps/mcp-host): POST /call *)

\* how many handler runs the log keeps
MaxToolRuns == 2

\* process.env.PHANTOM_MCP_SHARED_SECRET: the server does not start without it
SHARED_SECRET == <<"m","c","p","s","e","c">>

VALID_TOOLS == {"get_wallet_addresses", "sign_transaction", "transfer_tokens",
                "buy_token", "sign_message"}

\* body.session: absent, or an object with its three members
NoSession == [present |-> FALSE, walletId |-> NoMember, organizationId |-> NoMember,
              stamperSecretKey |-> NoMember]
HostSession(walletId, organizationId, stamperSecretKey) ==
    [present |-> TRUE, walletId |-> walletId, organizationId |-> organizationId,
     stamperSecretKey |-> stamperSecretKey]

\* a request body that is a JSON object, and one express.json() cannot parse
CallBody(tool, session) == [json |-> TRUE, tool |-> tool, session |-> session]
UnparsableCallBody == [json |-> FALSE, tool |-> NoMember, session |-> NoSession]

FullSession == HostSession(JsonMember("string", "wallet1"), JsonMember("string", "org1"),
                           JsonMember("string", "key1"))

HostSessions ==
    {NoSession, FullSession,
     HostSession(JsonMember("string", "wallet1"), JsonMember("string", "org1"), NoMember),
     HostSession(JsonMember("number", "1"), JsonMember("string", "org1"),
                 JsonMember("string", "key1")),
     HostSession(JsonMember("string", "wallet1"), NoMember, JsonMember("string", "key1"))}

HostTools == {NoMember, JsonMember("string", ""), JsonMember("number", "3"),
              JsonMember("string", "transfer_tokens"),
              JsonMember("string", "get_wallet_addresses"),
              JsonMember("string", "export_private_key")}

CallBodies == {UnparsableCallBody} \cup {CallBody(t, x) : t \in HostTools, x \in HostSessions}

\* req.headers.authorization of the requests
HostAuthHeaders == {NoHeader, Bearer(SHARED_SECRET), Bearer(WrongSecret), SHARED_SECRET}

\* what the request meets in @phantom/mcp-server: whether the `tools` array holds the
\* tool, and whether its handler returns or throws
ToolPackages == [installed : BOOLEAN, handler : {"returns", "throws"}]

\* res.status(status).json({ success, ... })
Respond(request, status, success) ==
    lastCall' = [fn |-> "POST /call", args |-> request, outcome |-> status,
                 success |-> success]

\* typeof x === "string"
IsString(member) == member.type = "string"

\* POST /call: express.json(), requireSharedSecret, the handler and dispatchTool
PostCall(authorization, body, package) ==
    /\ LET request == [authorization |-> authorization, body |-> body, package |-> package]
       IN  IF ~body.json
           THEN Respond(request, "500", FALSE) /\ toolRuns' = toolRuns
           ELSE IF authorization # Bearer(SHARED_SECRET)
           THEN Respond(request, "401", FALSE) /\ toolRuns' = toolRuns
           ELSE IF ~IsString(body.tool) \/ body.tool.value = ""
           THEN Respond(request, "400", FALSE) /\ toolRuns' = toolRuns
           ELSE IF \/ ~IsString(body.session.walletId)
                   \/ ~IsString(body.session.organizationId)
                   \/ ~IsString(body.session.stamperSecretKey)
           THEN Respond(request, "400", FALSE) /\ toolRuns' = toolRuns
           ELSE IF body.tool.value \notin VALID_TOOLS
           THEN Respond(request, "400", FALSE) /\ toolRuns' = toolRuns
           ELSE IF ~package.installed
           THEN Respond(request, "400", FALSE) /\ toolRuns' = toolRuns
           ELSE /\ Len(toolRuns) < MaxToolRuns
                /\ toolRuns' = Append(toolRuns, [tool |-> body.tool.value,
                                                 walletId |-> body.session.walletId.value])
                /\ IF package.handler = "throws"
                   THEN Respond(request, "500", FALSE)
                   ELSE Respond(request, "200", TRUE)
    /\ UNCHANGED <<resolverVars, backendVars, workerVars, authVars>>

NextHost ==
    \E h \in HostAuthHeaders, b \in CallBodies, k \in ToolPackages : PostCall(h, b, k)

SpecHost == Init /\ [][NextHost]_vars

-----------------------------------------------------------------------------
(* C34 *)

\* the request carries the shared secret as bearer token
HasSharedSecret(request) ==
    request.authorization = <<"B","e","a","r","e","r"," ">> \o SHARED_SECRET

\* the body names a tool and carries the three session strings
HasFields(request) ==
    /\ request.body.json
    /\ request.body.tool.type = "string" /\ request.body.tool.value # ""
    /\ request.body.session.walletId.type = "string"
    /\ request.body.session.organizationId.type = "string"
    /\ request.body.session.stamperSecretKey.type = "string"

\* the tool is one of the five allow-listed names
AllowListed(request) ==
    request.body.tool.value \in {"get_wallet_addresses", "sign_transaction",
                                 "transfer_tokens", "buy_token", "sign_message"}

\* C34, the part about which requests reach a handler: a handler runs only in a POST
\* /call with the shared secret, the three session strings and an allow-listed tool, and
\* success is answered only when that handler returned.
C34_HandlerRunsOnlyForValidCall ==
    [][CallOf("POST /call") =>
          LET request == lastCall'.args
              valid == HasSharedSecret(request) /\ HasFields(request) /\ AllowListed(request)
          IN  /\ toolRuns' # toolRuns => valid
              /\ lastCall'.success =>
                     /\ valid
                     /\ lastCall'.outcome = "200"
                     /\ toolRuns' # toolRuns
                     /\ request.package.handler = "returns"]_vars

\* C34: a handler runs only for a request with the shared secret, the session strings
\* and an allow-listed tool; a wrong secret is answered 401, a missing field or an
\* unknown tool 400, a failing handler 500 with success false; none of these is answered
\* with success.
C34_CallStatusCodes ==
    [][CallOf("POST /call") =>
          LET request == lastCall'.args
              valid == HasSharedSecret(request) /\ HasFields(request) /\ AllowListed(request)
          IN  /\ toolRuns' # toolRuns => valid
              /\ ~HasSharedSecret(request) =>
                     lastCall'.outcome = "401" /\ ~lastCall'.success
              /\ (/\ HasSharedSecret(request) /\ request.body.json
                  /\ ~(HasFields(request) /\ AllowListed(request))) =>
                     lastCall'.outcome = "400" /\ ~lastCall'.success
              /\ (toolRuns' # toolRuns /\ request.package.handler = "throws") =>
                     lastCall'.outcome = "500" /\ ~lastCall'.success
              /\ lastCall'.success => valid /\ toolRuns' # toolRuns]_vars

-----------------------------------------------------------------------------
(* The background service worker (apps/web/src/background.ts). A handler runs until its
   next await; the chrome.storage call, the SSO window and the fetch it awaits settle in
   a later step, and the handlers of other messages run in between. chrome.storage
   calls can reject: the handlers carry a catch for that. *)

\* searchParams.get(name) of a parameter the URL does not have
NoParam == "null"

\* !value of a string or null
Falsy(value) == value = NoParam \/ value = ""

\* the redirect URL launchWebAuthFlow delivered, by its parameters
Redirect(sessionId, walletId, organizationId, authUserId, error) ==
    [kind |-> "redirect", sessionId |-> sessionId, walletId |-> walletId,
     organizationId |-> organizationId, authUserId |-> authUserId, error |-> error]

\* launchWebAuthFlow failed (lastError, no URL), or the key pair could not be generated
FlowRejected == [kind |-> "rejected", sessionId |-> NoParam, walletId |-> NoParam,
                 organizationId |-> NoParam, authUserId |-> NoParam, error |-> NoParam]

\* generateSessionId() of the flow of request r: a fresh value, named after the request
SessionIdOf(r) == r

\* what the SSO window can come back with for the flow of r: the complete redirect, and
\* redirects with another or no session_id, with a value missing or empty, with an error
SsoOutcomes(r) ==
    {FlowRejected,
     Redirect(SessionIdOf(r), "wallet1", "org1", "u1", NoParam),
     Redirect(SessionIdOf(r), "wallet1", "org1", "u1", ""),
     Redirect(SessionIdOf(r), "wallet1", "org1", "u1", "access_denied"),
     Redirect(NoParam, NoParam, NoParam, NoParam, "access_denied"),
     Redirect("other", "wallet1", "org1", "u1", NoParam),
     Redirect(NoParam, "wallet1", "org1", "u1", NoParam),
     Redirect(SessionIdOf(r), NoParam, "org1", "u1", NoParam),
     Redirect(SessionIdOf(r), "wallet1", "", "u1", NoParam),
     Redirect(SessionIdOf(r), "wallet1", "org1", NoParam, NoParam)}

\* the PhantomSession built at background.ts:192-199; the key pair is the flow's own
PhantomSession(r, redirect) ==
    [kind |-> "session", userId |-> redirect.authUserId, walletId |-> redirect.walletId,
     organizationId |-> redirect.organizationId, stamperSecretKey |-> r]

SessionResult(session) == [type |-> "SESSION_RESULT", session |-> session]
ErrorResponse == [type |-> "ERROR", session |-> Null]
SessionChanged(session) == [type |-> "SESSION_CHANGED", session |-> session]

\* sendResponse(response) for request r, which ends its handler
SendResponse(r, response, flow) ==
    /\ answers' = [answers EXCEPT ![r] = Append(@, response)]
    /\ flows' = [flows EXCEPT ![r] = [flow EXCEPT !.pc = "done"]]

\* chrome.runtime.onMessage: the handler starts and awaits its first call
OnMessage(r, type) ==
    /\ flows[r].type = "none"
    /\ flows' = [flows EXCEPT ![r] =
                    [type |-> type,
                     pc |-> IF type = "CONNECT" THEN "sso"
                            ELSE IF type = "GET_SESSION" THEN "load" ELSE "clear",
                     value |-> Null,
                     flag |-> type = "GET_SESSION" /\ expectNull,
                     callback |-> Null]]
    /\ UNCHANGED <<resolverVars, backendVars, toolRuns, lastCall, authVars>>
    /\ UNCHANGED <<storage, broadcasts, answers, expectNull>>

\* mutant of CallbackThrows: the returned session_id is not compared
CallbackThrowsNoSessionId(r, redirect) ==
    \/ ~Falsy(redirect.error)
    \/ Falsy(redirect.walletId) \/ Falsy(redirect.organizationId)
    \/ Falsy(redirect.authUserId)

\* the throws of initiateSSOFlow after the redirect URL was parsed
CallbackThrows(r, redirect) ==
    \/ ~Falsy(redirect.error)
    \/ redirect.sessionId # SessionIdOf(r)
    \/ Falsy(redirect.walletId) \/ Falsy(redirect.organizationId)
    \/ Falsy(redirect.authUserId)

\* initiateSSOFlow from the settling of launchWebAuthFlow to `await saveSession`
SsoReturns(r, outcome) ==
    /\ flows[r].type = "CONNECT" /\ flows[r].pc = "sso"
    /\ IF outcome.kind = "rejected" \/ CallbackThrows(r, outcome)
       THEN SendResponse(r, ErrorResponse, [flows[r] EXCEPT !.callback = outcome])
       ELSE /\ flows' = [flows EXCEPT ![r] = [@ EXCEPT !.pc = "save",
                                                     !.value = PhantomSession(r, outcome),
                                                     !.callback = outcome]]
            /\ answers' = answers
    /\ UNCHANGED <<resolverVars, backendVars, toolRuns, lastCall, authVars>>
    /\ UNCHANGED <<storage, broadcasts, expectNull>>

\* the flows at the moment a CONNECT writes its session: a GET_SESSION under way no
\* longer counts as sent after a disconnect, a DISCONNECT whose storage request was
\* made is overtaken
Overtaken(fs) ==
    [q \in WorkerRequests |->
        IF fs[q].type = "GET_SESSION" /\ fs[q].pc # "done"
        THEN [fs[q] EXCEPT !.flag = FALSE]
        ELSE IF fs[q].type = "DISCONNECT" /\ fs[q].pc = "answer"
        THEN [fs[q] EXCEPT !.flag = TRUE]
        ELSE fs[q]]

\* saveSession(session) settles: the value is written, or chrome.storage rejects and
\* initiateSSOFlow throws
SaveSession(r, written) ==
    /\ flows[r].type = "CONNECT" /\ flows[r].pc = "save"
    /\ IF written
       THEN /\ storage' = flows[r].value
            /\ expectNull' = FALSE
            /\ flows' = Overtaken([flows EXCEPT ![r] = [@ EXCEPT !.pc = "register"]])
            /\ answers' = answers
       ELSE /\ SendResponse(r, ErrorResponse, flows[r])
            /\ UNCHANGED <<storage, expectNull>>
    /\ UNCHANGED <<resolverVars, backendVars, toolRuns, lastCall, authVars>>
    /\ broadcasts' = broadcasts

\* the fetch of /auth/register-session settles (a rejection is caught): the broadcast
\* and the answer of the CONNECT
RegisterSettles(r) ==
    /\ flows[r].type = "CONNECT" /\ flows[r].pc = "register"
    /\ broadcasts' = Append(broadcasts, SessionChanged(flows[r].value))
    /\ SendResponse(r, SessionResult(flows[r].value), flows[r])
    /\ UNCHANGED <<resolverVars, backendVars, toolRuns, lastCall, authVars>>
    /\ UNCHANGED <<storage, expectNull>>

\* loadSession(): chrome.storage.local.get reads the value; on a rejection the handler
\* answers null
LoadSession(r, read) ==
    /\ flows[r].type = "GET_SESSION" /\ flows[r].pc = "load"
    /\ flows' = [flows EXCEPT ![r] = [@ EXCEPT !.pc = "answer",
                                                  !.value = IF read THEN storage ELSE Null]]
    /\ UNCHANGED <<resolverVars, backendVars, toolRuns, lastCall, authVars>>
    /\ UNCHANGED <<storage, broadcasts, answers, expectNull>>

\* GET_SESSION: sendResponse({ type: "SESSION_RESULT", session })
AnswerGetSession(r) ==
    /\ flows[r].type = "GET_SESSION" /\ flows[r].pc = "answer"
    /\ SendResponse(r, SessionResult(flows[r].value), flows[r])
    /\ UNCHANGED <<resolverVars, backendVars, toolRuns, lastCall, authVars>>
    /\ UNCHANGED <<storage, broadcasts, expectNull>>

Cleared == [kind |-> "cleared"]
NotCleared == [kind |-> "rejected"]

\* clearSession(): chrome.storage.local.remove takes the value away, or rejects
ClearSession(r, removed) ==
    /\ flows[r].type = "DISCONNECT" /\ flows[r].pc = "clear"
    /\ storage' = IF removed THEN Null ELSE storage
    /\ flows' = [flows EXCEPT ![r] = [@ EXCEPT !.pc = "answer",
                                                  !.value = IF removed THEN Cleared
                                                            ELSE NotCleared]]
    /\ UNCHANGED <<resolverVars, backendVars, toolRuns, lastCall, authVars>>
    /\ UNCHANGED <<broadcasts, answers, expectNull>>

\* disconnect() after clearSession settled: the broadcast, if it resolved, and the
\* answer of the DISCONNECT, the same in .then and in .catch
AnswerDisconnect(r) ==
    /\ flows[r].type = "DISCONNECT" /\ flows[r].pc = "answer"
    /\ broadcasts' = IF flows[r].value = Cleared
                     THEN Append(broadcasts, SessionChanged(Null))
                     ELSE broadcasts
    /\ SendResponse(r, SessionResult(Null), flows[r])
    /\ expectNull' = ~flows[r].flag
    /\ UNCHANGED <<resolverVars, backendVars, toolRuns, lastCall, authVars>>
    /\ storage' = storage

MessageTypes == {"GET_SESSION", "CONNECT", "DISCONNECT"}

NextWorker ==
    \/ \E r \in WorkerRequests, type \in MessageTypes : OnMessage(r, type)
    \/ \E r \in WorkerRequests : \E outcome \in SsoOutcomes(r) : SsoReturns(r, outcome)
    \/ \E r \in WorkerRequests, written \in BOOLEAN : SaveSession(r, written)
    \/ \E r \in WorkerRequests : RegisterSettles(r)
    \/ \E r \in WorkerRequests, read \in BOOLEAN : LoadSession(r, read)
    \/ \E r \in WorkerRequests : AnswerGetSession(r)
    \/ \E r \in WorkerRequests, removed \in BOOLEAN : ClearSession(r, removed)
    \/ \E r \in WorkerRequests : AnswerDisconnect(r)

SpecWorker == Init /\ [][NextWorker]_vars

-----------------------------------------------------------------------------
\* the redirect carries an error: an error parameter that says something
CarriesError(redirect) == redirect.error # NoParam /\ redirect.error # ""

\* the SSO callback of the flow of r is complete: no error, the session_id this flow
\* generated, and wallet_id, organization_id and auth_user_id
GoodCallback(r, redirect) ==
    /\ redirect # Null
    /\ redirect.kind = "redirect"
    /\ ~CarriesError(redirect)
    /\ redirect.sessionId = SessionIdOf(r)
    /\ redirect.walletId \notin {NoParam, ""}
    /\ redirect.organizationId \notin {NoParam, ""}
    /\ redirect.authUserId \notin {NoParam, ""}

\* the flow of r took a step
Steps(r) == flows'[r].pc # flows[r].pc

\* C35: a CONNECT stores a session only when the SSO callback carries no error, returns
\* the session_id of this flow and includes wallet_id, organization_id and auth_user_id;
\* in every other case the stored session stays as it is, no SESSION_CHANGED is
\* broadcast and the CONNECT is answered with ERROR.
C35_ConnectStoresOnlyCompleteCallback ==
    [][/\ \A r \in WorkerRequests :
            (flows[r].type = "CONNECT" /\ Steps(r)) =>
                \/ GoodCallback(r, flows'[r].callback)
                \/ /\ storage' = storage
                   /\ broadcasts' = broadcasts
                   /\ answers'[r] = <<ErrorResponse>>
       /\ (storage' # storage /\ storage' # Null) =>
            \E r \in WorkerRequests :
                /\ flows[r].type = "CONNECT" /\ Steps(r)
                /\ GoodCallback(r, flows[r].callback)
                /\ storage' = PhantomSession(r, flows[r].callback)
       /\ (broadcasts' # broadcasts /\ broadcasts'[Len(broadcasts')].session # Null) =>
            \E r \in WorkerRequests :
                /\ flows[r].type = "CONNECT" /\ Steps(r)
                /\ GoodCallback(r, flows[r].callback)
                /\ broadcasts'[Len(broadcasts')] =
                        SessionChanged(PhantomSession(r, flows[r].callback))
      ]_vars

\* one CONNECT stored its session and was answered with it, another came back with a
\* foreign session_id and was answered with ERROR
C35_Witness ==
    \E r, q \in WorkerRequests :
        /\ flows[r].type = "CONNECT" /\ flows[q].type = "CONNECT"
        /\ GoodCallback(r, flows[r].callback)
        /\ storage = PhantomSession(r, flows[r].callback)
        /\ answers[r] = <<SessionResult(storage)>>
        /\ flows[q].callback # Null
        /\ flows[q].callback.sessionId = "other"
        /\ answers[q] = <<ErrorResponse>>

\* GET_SESSION requests answered although they were sent after a DISCONNECT was
\* answered and before any CONNECT stored a session
AfterDisconnect == {r \in WorkerRequests : /\ flows[r].type = "GET_SESSION"
                                           /\ flows[r].pc = "done"
                                           /\ flows[r].flag}

AnsweredDisconnects == {r \in WorkerRequests : /\ flows[r].type = "DISCONNECT"
                                               /\ flows[r].pc = "done"}

NullBroadcasts == {i \in 1..Len(broadcasts) : broadcasts[i] = SessionChanged(Null)}

\* C36: after a DISCONNECT has been answered, a GET_SESSION returns a null session
\* until the next successful CONNECT, and the DISCONNECT broadcasts SESSION_CHANGED
\* with a null session.
C36_NullSessionAfterDisconnect ==
    /\ \A r \in AfterDisconnect : answers[r] = <<SessionResult(Null)>>
    /\ Cardinality(NullBroadcasts) >= Cardinality(AnsweredDisconnects)

\* the same, as long as chrome.storage.local.remove never rejected
C36_NullSessionAfterRemoval ==
    (\A r \in WorkerRequests : flows[r].value # NotCleared) =>
        C36_NullSessionAfterDisconnect

-----------------------------------------------------------------------------
(* The service worker with the auth tab (src/unnamed/part_000). The pending flow is kept
   in authTabId, authPromiseResolve and authPromiseReject; the two functions are named
   here by the CONNECT request whose promise they settle. A tab has the name of the
   request that opened it. handleAuthCallback is async: it runs to its next await, and
   tab events, the timeout and other messages run before it goes on. *)

\* invocations of handleAuthCallback followed
MaxCallbacks == 2

TabOpen == [kind |-> "open"]
TabClosed == [kind |-> "closed"]

\* the parameters of a URL that has chromiumapp.org/callback in it
CallbackUrls ==
    {[error |-> NoParam, walletId |-> "wallet1", organizationId |-> "org1",
      userId |-> "u1"],
     [error |-> "access_denied", walletId |-> NoParam, organizationId |-> NoParam,
      userId |-> NoParam],
     [error |-> NoParam, walletId |-> NoParam, organizationId |-> "org1",
      userId |-> "u1"]}

\* the session built at part_000:238-244 by invocation i; Date.now() grows with i
AuthSession(i) ==
    [kind |-> "session", userId |-> callbacks[i].url.userId,
     walletId |-> callbacks[i].url.walletId,
     organizationId |-> callbacks[i].url.organizationId,
     publicKey |-> "", createdAt |-> i]

\* the request whose promise a call of the function in the slot settles: none when the
\* slot is null or the promise is settled already
Settles(slot) ==
    IF slot # NoSlot /\ flows[slot].pc # "done" THEN slot ELSE NoSlot

\* resolve or reject of the promise named by `slot`, with the .then or .catch of the
\* CONNECT handler that answers, and chrome.tabs.remove of `tab`
SettleAndRemove(fs, slot, response, tab) ==
    /\ flows' = [q \in WorkerRequests |->
                    [fs[q] EXCEPT
                        !.pc = IF q = Settles(slot) THEN "done" ELSE @,
                        !.value = IF q = tab /\ @ = TabOpen THEN TabClosed ELSE @]]
    /\ answers' = [q \in WorkerRequests |->
                    IF q = Settles(slot) THEN Append(answers[q], response)
                    ELSE answers[q]]

cleanupAuth ==
    /\ authTabId' = NoSlot
    /\ authPromiseResolve' = NoSlot
    /\ authPromiseReject' = NoSlot

\* onMessage CONNECT: initiateAuth() starts and awaits logToStorage
ConnectMessage(r) ==
    /\ flows[r].type = "none"
    /\ flows' = [flows EXCEPT ![r] = [NoFlow EXCEPT !.type = "CONNECT", !.pc = "init"]]
    /\ UNCHANGED <<resolverVars, backendVars, toolRuns, lastCall, expectNull>>
    /\ UNCHANGED <<storage, broadcasts, answers, authVars>>

\* initiateAuth after its awaits: a rejection of logToStorage outside the try, or in
\* the fallback, rejects the CONNECT; otherwise openAuthTab takes the slot and asks
\* for the tab
openAuthTab(r, opened) ==
    /\ flows[r].type = "CONNECT" /\ flows[r].pc = "init"
    /\ IF opened
       THEN /\ authPromiseResolve' = r
            /\ authPromiseReject' = r
            /\ flows' = [flows EXCEPT ![r] = [@ EXCEPT !.pc = "creating"]]
            /\ UNCHANGED <<answers, authTabId>>
       ELSE /\ SendResponse(r, ErrorResponse, flows[r])
            /\ UNCHANGED <<authPromiseResolve, authPromiseReject, authTabId>>
    /\ UNCHANGED <<resolverVars, backendVars, toolRuns, lastCall, expectNull>>
    /\ UNCHANGED <<storage, broadcasts, callbacks>>

\* the callback of chrome.tabs.create
TabCreated(r, hasId) ==
    /\ flows[r].type = "CONNECT" /\ flows[r].pc = "creating"
    /\ IF hasId
       THEN /\ authTabId' = r
            /\ flows' = [flows EXCEPT ![r] = [@ EXCEPT !.pc = "open", !.value = TabOpen,
                                                     !.flag = TRUE]]
            /\ UNCHANGED <<answers, authPromiseResolve, authPromiseReject>>
       ELSE /\ authPromiseResolve' = NoSlot
            /\ authPromiseReject' = NoSlot
            /\ SendResponse(r, ErrorResponse, flows[r])
            /\ authTabId' = authTabId
    /\ UNCHANGED <<resolverVars, backendVars, toolRuns, lastCall, expectNull>>
    /\ UNCHANGED <<storage, broadcasts, callbacks>>

\* the setTimeout of openAuthTab fires for the tab of r
AuthTimeout(r) ==
    /\ flows[r].type = "CONNECT" /\ flows[r].flag
    /\ IF authTabId = r /\ authPromiseReject # NoSlot
       THEN /\ SettleAndRemove([flows EXCEPT ![r] = [@ EXCEPT !.flag = FALSE]],
                               authPromiseReject, ErrorResponse, r)
            /\ cleanupAuth
       ELSE /\ flows' = [flows EXCEPT ![r] = [@ EXCEPT !.flag = FALSE]]
            /\ UNCHANGED <<answers, authVars>>
    /\ UNCHANGED <<resolverVars, backendVars, toolRuns, lastCall, expectNull>>
    /\ UNCHANGED <<storage, broadcasts, callbacks>>

\* chrome.tabs.onUpdated with a callback URL: handleAuthCallback starts
TabUpdated(tabId, url) ==
    /\ flows[tabId].value = TabOpen
    /\ tabId = authTabId /\ authPromiseResolve # NoSlot
    /\ Len(callbacks) < MaxCallbacks
    /\ callbacks' = Append(callbacks, [tab |-> tabId, url |-> url, pc |-> "log"])
    /\ UNCHANGED <<resolverVars, backendVars, toolRuns, lastCall, expectNull>>
    /\ UNCHANGED <<storage, broadcasts, flows, answers>>
    /\ UNCHANGED <<authTabId, authPromiseResolve, authPromiseReject>>

\* chrome.tabs.onRemoved: the user closes the tab
TabRemoved(tabId) ==
    /\ flows[tabId].value = TabOpen
    /\ IF tabId = authTabId /\ authPromiseReject # NoSlot
       THEN /\ SettleAndRemove(flows, authPromiseReject, ErrorResponse, tabId)
            /\ cleanupAuth
       ELSE /\ flows' = [flows EXCEPT ![tabId] = [@ EXCEPT !.value = TabClosed]]
            /\ UNCHANGED <<answers, authTabId, authPromiseResolve, authPromiseReject>>
    /\ UNCHANGED <<resolverVars, backendVars, toolRuns, lastCall, expectNull>>
    /\ UNCHANGED <<storage, broadcasts, callbacks>>

CallbackAt(i, at) == [callbacks EXCEPT ![i] = [@ EXCEPT !.pc = at]]

\* handleAuthCallback from its start to `await saveSession`: the awaits of logToStorage
\* (a rejection of the first one, outside the try, ends the invocation; a later one
\* goes to the catch), then the tests of the parameters
HandleAuthCallback(i, logged) ==
    /\ i \in 1..Len(callbacks) /\ callbacks[i].pc = "log"
    /\ LET url == callbacks[i].url
           tabId == callbacks[i].tab
       IN IF logged = "rejects"
          THEN /\ callbacks' = CallbackAt(i, "ended")
               /\ UNCHANGED <<flows, answers, authTabId, authPromiseResolve,
                              authPromiseReject>>
          ELSE IF logged = "rejects in try" \/ ~Falsy(url.error)
                  \/ Falsy(url.walletId) \/ Falsy(url.organizationId)
                  \/ Falsy(url.userId)
          THEN /\ callbacks' = CallbackAt(i, "rejected")
               /\ SettleAndRemove(flows, authPromiseReject, ErrorResponse, tabId)
               /\ cleanupAuth
          ELSE /\ callbacks' = CallbackAt(i, "save")
               /\ UNCHANGED <<flows, answers, authTabId, authPromiseResolve,
                              authPromiseReject>>
    /\ UNCHANGED <<resolverVars, backendVars, toolRuns, lastCall, expectNull>>
    /\ UNCHANGED <<storage, broadcasts>>

\* handleAuthCallback after `await saveSession(session)`: the broadcast and the resolve,
\* or the catch when chrome.storage rejected
SaveAuthSession(i, written) ==
    /\ i \in 1..Len(callbacks) /\ callbacks[i].pc = "save"
    /\ IF written
       THEN /\ storage' = AuthSession(i)
            /\ broadcasts' = Append(broadcasts, SessionChanged(AuthSession(i)))
            /\ callbacks' = CallbackAt(i, "saved")
            /\ SettleAndRemove(flows, authPromiseResolve, SessionResult(AuthSession(i)),
                                   callbacks[i].tab)
       ELSE /\ UNCHANGED <<storage, broadcasts>>
            /\ callbacks' = CallbackAt(i, "rejected")
            /\ SettleAndRemove(flows, authPromiseReject, ErrorResponse,
                               callbacks[i].tab)
    /\ cleanupAuth
    /\ UNCHANGED <<resolverVars, backendVars, toolRuns, lastCall, expectNull>>

\* the CONNECT requests followed
ConnectRequests == {"r1", "r2"}

NextAuthTab ==
    \/ \E r \in ConnectRequests : ConnectMessage(r)
    \/ \E r \in ConnectRequests, opened \in BOOLEAN : openAuthTab(r, opened)
    \/ \E r \in ConnectRequests, hasId \in BOOLEAN : TabCreated(r, hasId)
    \/ \E r \in ConnectRequests : AuthTimeout(r)
    \/ \E r \in ConnectRequests, url \in CallbackUrls : TabUpdated(r, url)
    \/ \E r \in ConnectRequests : TabRemoved(r)
    \/ \E i \in 1..MaxCallbacks, logged \in {"resolves", "rejects", "rejects in try"} :
            HandleAuthCallback(i, logged)
    \/ \E i \in 1..MaxCallbacks, written \in BOOLEAN : SaveAuthSession(i, written)

SpecAuthTab == Init /\ [][NextAuthTab]_vars

-----------------------------------------------------------------------------
\* the CONNECT requests whose flow is in flight: openAuthTab was called, the promise is
\* pending
InFlight == {r \in WorkerRequests : /\ flows[r].type = "CONNECT"
                                    /\ flows[r].pc \in {"creating", "open"}}

AtMostOneInFlight == Cardinality(InFlight) <= 1

AnsweredAtMostOnce ==
    \A r \in WorkerRequests :
        /\ Len(answers[r]) <= 1
        /\ \A k \in 1..Len(answers[r]) : answers[r][k].type \in {"SESSION_RESULT", "ERROR"}

\* a CONNECT whose tab was created and whose promise is pending, while the slot no
\* longer holds its resolve and reject: nothing in the worker can settle it any more
Abandoned(r) ==
    /\ flows[r].type = "CONNECT" /\ flows[r].pc = "open"
    /\ authPromiseResolve # r /\ authPromiseReject # r

NoAbandonedConnect == \A r \in WorkerRequests : ~Abandoned(r)

\* C37: in the tab-based auth flow at most one auth flow is in flight at a time and
\* every CONNECT is answered exactly once with SESSION_RESULT or ERROR, also when a
\* second CONNECT arrives while the tab of the first flow is open. (The part about the
\* answer is stated as safety: no CONNECT is answered twice, and none is left with a
\* promise that can no longer be settled.)
C37_OneFlowOneAnswer ==
    /\ AtMostOneInFlight
    /\ AnsweredAtMostOnce
    /\ NoAbandonedConnect

\* the invocations of handleAuthCallback for the tab of flow t that saved a session
SavedBy(t) == {i \in 1..Len(callbacks) : callbacks[i].tab = t /\ callbacks[i].pc = "saved"}

SavedAtMostOnce == \A t \in WorkerRequests : Cardinality(SavedBy(t)) <= 1

\* every session saved and broadcast is the one its CONNECT was answered with
SavedOnlyWithResult ==
    \A i \in 1..Len(callbacks) :
        callbacks[i].pc = "saved" =>
            answers[callbacks[i].tab] = <<SessionResult(AuthSession(i))>>

\* C38: a session is stored and broadcast only if the CONNECT that started the flow is
\* answered with SESSION_RESULT for that session, under every interleaving of the
\* callback handler with tab removal, repeated URL updates and the timeout: a flow
\* answered with ERROR leaves no session stored, and the session is saved at most once
\* per flow.
C38_SessionOnlyWithResult ==
    /\ SavedOnlyWithResult
    /\ SavedAtMostOnce

====
